---- MODULE Spec2Model ----
(***************************************************************************)
(* A model of PyChildes' CHAT transcript cleaner (src/prepare_childes.py): *)
(* the UnitTurn aggregation object, the rewrite stages of one utterance,   *)
(* the scoped-marker parser, the line dispatcher of process_cha_file and   *)
(* the text and JSON sinks of src/chat_output.py.                          *)
(*                                                                         *)
(* Text is a sequence of one-character strings, so that the regular        *)
(* expressions of the source are modelled character by character.          *)
(***************************************************************************)
EXTENDS Integers, Sequences, FiniteSets, TLC

VARIABLES
    unit_turn,        \* the UnitTurn object being filled
    log,              \* history: the <<attribute, content>> pairs update() stored in unit_turn
    turn_err,         \* the exception UnitTurn.update raised last ("none" when it returned)
    nupd,             \* history: number of update calls made on unit_turn
    chat_config,      \* process_cha_file: the ChatConfig loaded
    input,            \* history: the lines the loop of process_cha_file has taken so far
    processed_lines,  \* process_cha_file: the list of lines to write
    status,           \* process_cha_file: "idle", "running", "done" (returned), "error" (raised)
    err,              \* the exception process_cha_file raised: its kind and its data
    written,          \* the output file: whether it was written, and its lines
    appended,         \* history: the <<attribute, content>> pairs stored in any turn of the run
    flushed,          \* history: the list each flush of a turn gave, in order
    utt_calls,        \* history: the process_utterance calls made for the last line taken
    sink,             \* a ChatSinkText or ChatSinkJSON: state, buffer, file, number of turns written
    para,             \* a call of process_paralinguistic: its arguments, whether made, its result
    fn_call           \* a call of one of the other functions: its name, arguments, result

turnVars == <<unit_turn, log, turn_err, nupd>>
fileVars == <<chat_config, input, processed_lines, status, err, written, appended, flushed, utt_calls>>

vars == <<unit_turn, log, turn_err, nupd, chat_config, input, processed_lines, status, err,
          written, appended, flushed, utt_calls, sink, para, fn_call>>

\* ------------------------------------------------------------------ bounds

\* The longest sequence of UnitTurn.update calls explored on one turn.
MaxUpdates == 4
\* The number of lines of an input file.
MaxLines == 4
\* The number of turns written to one sink.
MaxTurns == 2
\* The number of tokens of an utterance given to process_paralinguistic.
MaxTokens == 3
\* The length of a text replacement spans are applied to.
MaxText == 3
\* The number of replacement spans applied to one text.
MaxSpans == 2
\* The number of tokens of the text of an utterance line given to process_utterance.
MaxWords == 2

\* ------------------------------------------------------------ sequence helpers

RECURSIVE Flatten(_)
\* The concatenation of a sequence of sequences (list.extend, repeated).
Flatten(ss) == IF ss = <<>> THEN <<>> ELSE Head(ss) \o Flatten(Tail(ss))

RECURSIVE SelectAttr(_, _)
\* The contents logged for attribute a, in arrival order.
SelectAttr(lg, a) ==
    IF lg = <<>> THEN <<>>
    ELSE (IF Head(lg)[1] = a THEN <<Head(lg)[2]>> ELSE <<>>) \o SelectAttr(Tail(lg), a)

\* ------------------------------------------------------------ characters

\* Python's \s, \d and \w on the characters of the model. A character is a
\* one-character string; the code points the source names that are not ASCII
\* are written by name: NAK (u0015), MIDDOT, DDAGGER, LOWQUOTE, UPARROW,
\* DOWNARROW, PRIMSTRESS, SECSTRESS, NOTEQUAL.
Space == {" ", "\t", "\n", "\r", "\f"}
Lower == <<"a","b","c","d","e","f","g","h","i","j","k","l","m","n","o","p","q","r","s","t","u","v","w","x","y","z">>
Upper == <<"A","B","C","D","E","F","G","H","I","J","K","L","M","N","O","P","Q","R","S","T","U","V","W","X","Y","Z">>
Digit == {"0","1","2","3","4","5","6","7","8","9"}
Range(f) == {f[i] : i \in DOMAIN f}
WordCh == Range(Lower) \cup Range(Upper) \cup Digit \cup {"_"}

\* str.upper on one character.
UpperCh(c) == IF \E i \in DOMAIN Lower : Lower[i] = c
              THEN Upper[CHOOSE i \in DOMAIN Lower : Lower[i] = c] ELSE c

\* ------------------------------------------- regular expressions (Python re)

\* A pattern is a tree of records; MK is the backtracking matcher of Python's
\* re module: alternatives in order, greedy before lazy, groups capture
\* <<start, end>> (end exclusive, <<0, 0>> when the group took no part).
NoCaps == <<<<0, 0>>, <<0, 0>>, <<0, 0>>, <<0, 0>>>>
Fail == [ok |-> FALSE, p |-> 0, c |-> NoCaps]

In(cs) == [k |-> "set", cs |-> cs]
NotIn(cs) == [k |-> "nset", cs |-> cs]
Ch(c) == In({c})
Eps == [k |-> "eps"]
\* A literal text, and the alternation of literal texts in their order.
Lit(cs) == [k |-> "lit", s |-> cs]
Lits(ss) == [k |-> "lits", ss |-> ss]
Cat2(a, b) == [k |-> "cat", a |-> a, b |-> b]
RECURSIVE Cat(_)
Cat(rs) == IF Len(rs) = 0 THEN Eps ELSE IF Len(rs) = 1 THEN rs[1] ELSE Cat2(rs[1], Cat(Tail(rs)))
Alt(a, b) == [k |-> "alt", a |-> a, b |-> b]
RECURSIVE AltOf(_)
AltOf(rs) == IF Len(rs) = 1 THEN rs[1] ELSE Alt(rs[1], AltOf(Tail(rs)))
\* A repetition of one character class: [cs]* [cs]+ [cs]? and their negated
\* and lazy forms (max = -1: unbounded).
Run(cs, neg, min, max, lazy) ==
    [k |-> "run", cs |-> cs, neg |-> neg, min |-> min, max |-> max, lazy |-> lazy]
StarIn(cs) == Run(cs, FALSE, 0, -1, FALSE)
PlusIn(cs) == Run(cs, FALSE, 1, -1, FALSE)
OptIn(cs) == Run(cs, FALSE, 0, 1, FALSE)
StarNotIn(cs) == Run(cs, TRUE, 0, -1, FALSE)
PlusNotIn(cs) == Run(cs, TRUE, 1, -1, FALSE)
LazyStarNotIn(cs) == Run(cs, TRUE, 0, -1, TRUE)
LazyPlusNotIn(cs) == Run(cs, TRUE, 1, -1, TRUE)
\* A repetition of any pattern.
Star(a) == [k |-> "star", a |-> a]
Plus(a) == Cat2(a, Star(a))
Opt(a) == Alt(a, Eps)
Grp(n, a) == [k |-> "grp", n |-> n, a |-> a]
Ref(n) == [k |-> "ref", n |-> n]
WB == [k |-> "wb"]
\* The characters . matches.
NotNewline == {"\n"}

MinOf(S) == CHOOSE x \in S : \A y \in S : x <= y
MaxOf(S) == CHOOSE x \in S : \A y \in S : x >= y

IsWordAt(s, i) == i >= 1 /\ i <= Len(s) /\ s[i] \in WordCh

RECURSIVE MK(_, _, _, _)
\* Match the patterns ks one after the other in s from position i with captures
\* c: the first success in backtracking order, or Fail.
MK(ks, s, i, c) ==
    IF ks = <<>> THEN [ok |-> TRUE, p |-> i, c |-> c]
    ELSE LET re == Head(ks)
             rest == Tail(ks)
         IN CASE re.k = "set" -> IF i <= Len(s) /\ s[i] \in re.cs THEN MK(rest, s, i + 1, c) ELSE Fail
              [] re.k = "nset" -> IF i <= Len(s) /\ s[i] \notin re.cs THEN MK(rest, s, i + 1, c) ELSE Fail
              [] re.k = "eps" -> MK(rest, s, i, c)
              [] re.k = "cat" -> MK(<<re.a, re.b>> \o rest, s, i, c)
              [] re.k = "alt" -> LET r == MK(<<re.a>> \o rest, s, i, c)
                                 IN IF r.ok THEN r ELSE MK(<<re.b>> \o rest, s, i, c)
              [] re.k = "star" -> LET r == MK(<<re.a, [k |-> "chk", i |-> i], re>> \o rest, s, i, c)
                                  IN IF r.ok THEN r ELSE MK(rest, s, i, c)
              [] re.k = "lit" ->
                    LET n == Len(re.s)
                    IN IF i + n - 1 <= Len(s) /\ SubSeq(s, i, i + n - 1) = re.s
                       THEN MK(rest, s, i + n, c) ELSE Fail
              [] re.k = "lits" ->
                    LET idx == {j \in DOMAIN re.ss :
                                   /\ i + Len(re.ss[j]) - 1 <= Len(s)
                                   /\ SubSeq(s, i, i + Len(re.ss[j]) - 1) = re.ss[j]}
                        res == [j \in idx |-> MK(rest, s, i + Len(re.ss[j]), c)]
                        oks == {j \in idx : res[j].ok}
                    IN IF oks = {} THEN Fail ELSE res[MinOf(oks)]
              [] re.k = "run" ->
                    LET stops == {j \in i..(Len(s) + 1) :
                                     j = Len(s) + 1 \/ ((s[j] \in re.cs) = re.neg)}
                        runEnd == MinOf(stops)
                        limit == IF re.max >= 0 /\ i + re.max < runEnd THEN i + re.max ELSE runEnd
                        res == [e \in (i + re.min)..limit |-> MK(rest, s, e, c)]
                        oks == {e \in DOMAIN res : res[e].ok}
                    IN IF oks = {} THEN Fail
                       ELSE res[IF re.lazy THEN MinOf(oks) ELSE MaxOf(oks)]
              [] re.k = "chk" -> IF i > re.i THEN MK(rest, s, i, c) ELSE Fail
              [] re.k = "grp" -> MK(<<re.a, [k |-> "close", n |-> re.n, i |-> i]>> \o rest, s, i, c)
              [] re.k = "close" -> MK(rest, s, i, [c EXCEPT ![re.n] = <<re.i, i>>])
              [] re.k = "ref" -> LET g == c[re.n]
                                     n == g[2] - g[1]
                                 IN IF g[1] = 0 \/ i + n - 1 > Len(s) THEN Fail
                                    ELSE IF SubSeq(s, i, i + n - 1) = SubSeq(s, g[1], g[2] - 1)
                                         THEN MK(rest, s, i + n, c) ELSE Fail
              [] re.k = "wb" -> IF IsWordAt(s, i - 1) # IsWordAt(s, i) THEN MK(rest, s, i, c) ELSE Fail

NoMatch == [ok |-> FALSE, s |-> 0, e |-> 0, c |-> NoCaps]

\* A match [s, e) with its captures c.
MatchAt(first, r) == [ok |-> TRUE, s |-> first, e |-> r.p, c |-> r.c]

\* The leftmost of the positions a match starts at.
SearchAmong(re, s, starts) ==
    IF starts = {} THEN NoMatch
    ELSE MatchAt(MinOf(starts), MK(<<re>>, s, MinOf(starts), NoCaps))

\* re.search from position from: the leftmost match and its captures.
Search(re, s, from) ==
    SearchAmong(re, s, {i \in from..(Len(s) + 1) : MK(<<re>>, s, i, NoCaps).ok})

RECURSIVE FindFrom(_, _, _)
\* The matches from m on: after a match the scan goes on at its end, one
\* further after an empty match.
FindFrom(re, s, m) ==
    IF ~m.ok THEN <<>>
    ELSE <<m>> \o FindFrom(re, s, Search(re, s, IF m.e > m.s THEN m.e ELSE m.e + 1))

\* re.finditer: the non-overlapping matches, left to right.
FindIter(re, s, from) == FindFrom(re, s, Search(re, s, from))

\* m.group(n): the captured text, <<>> for a group that took no part.
Group(s, m, n) == IF m.c[n][1] = 0 THEN <<>> ELSE SubSeq(s, m.c[n][1], m.c[n][2] - 1)
HasGroup(m, n) == m.c[n][1] # 0

\* A replacement is a sequence of parts: literal text, or a group under a
\* transformation (id: the text itself, upper: m.group(n).upper(), spell:
\* ' '.join(m.group(n)).upper(), unders: m.group(n).replace('_', ' ')).
L(cs) == [t |-> "lit", s |-> cs, n |-> 0, f |-> "id"]
G(n) == [t |-> "grp", s |-> <<>>, n |-> n, f |-> "id"]
GF(n, f) == [t |-> "grp", s |-> <<>>, n |-> n, f |-> f]

RECURSIVE Spell(_)
Spell(cs) == IF Len(cs) <= 1 THEN cs ELSE <<cs[1], " ">> \o Spell(Tail(cs))

Transform(f, cs) ==
    CASE f = "id" -> cs
      [] f = "upper" -> [i \in DOMAIN cs |-> UpperCh(cs[i])]
      [] f = "spell" -> LET sp == Spell(cs) IN [i \in DOMAIN sp |-> UpperCh(sp[i])]
      [] f = "unders" -> [i \in DOMAIN cs |-> IF cs[i] = "_" THEN " " ELSE cs[i]]

RECURSIVE Expand(_, _, _)
Expand(tmpl, s, m) ==
    IF tmpl = <<>> THEN <<>>
    ELSE LET part == Head(tmpl)
         IN (IF part.t = "lit" THEN part.s ELSE Transform(part.f, Group(s, m, part.n)))
            \o Expand(Tail(tmpl), s, m)

RECURSIVE SubMatches(_, _, _, _)
\* The text from position from on with every match of ms replaced.
SubMatches(tmpl, s, from, ms) ==
    IF ms = <<>> THEN SubSeq(s, from, Len(s))
    ELSE SubSeq(s, from, Head(ms).s - 1) \o Expand(tmpl, s, Head(ms))
         \o SubMatches(tmpl, s, Head(ms).e, Tail(ms))

\* re.sub(re, tmpl, s)
Sub(re, tmpl, s) == SubMatches(tmpl, s, 1, FindIter(re, s, 1))

\* One conditional statement `if on: utterance = re.sub(re, tmpl, utterance)`.
Rule(on, re, tmpl) == [on |-> on, re |-> re, tmpl |-> tmpl]

RECURSIVE SubAll(_, _)
\* The statements of a list of rules, one after the other.
SubAll(rules, s) ==
    IF rules = <<>> THEN s
    ELSE CHOOSE result \in
            {SubAll(Tail(rules), next) :
                next \in {IF Head(rules).on THEN Sub(Head(rules).re, Head(rules).tmpl, s)
                          ELSE s}} : TRUE

\* ------------------------------------------------------------ str methods

RECURSIVE Find(_, _, _)
\* str.find(sep, from): the first position at or after `from` where sep stands, 0 if none.
Find(s, sep, from) ==
    IF from + Len(sep) - 1 > Len(s) THEN 0
    ELSE IF SubSeq(s, from, from + Len(sep) - 1) = sep THEN from
    ELSE Find(s, sep, from + 1)

\* sep in s
Contains(s, sep) == Find(s, sep, 1) # 0

\* s.startswith(pre)
StartsWith(s, pre) == Len(s) >= Len(pre) /\ SubSeq(s, 1, Len(pre)) = pre

RECURSIVE SplitMax(_, _, _)
\* s.split(sep, maxsplit), maxsplit = -1 for no limit: the list of parts.
SplitMax(s, sep, maxsplit) ==
    LET i == Find(s, sep, 1)
    IN IF i = 0 \/ maxsplit = 0 THEN <<s>>
       ELSE <<SubSeq(s, 1, i - 1)>>
            \o SplitMax(SubSeq(s, i + Len(sep), Len(s)), sep,
                        IF maxsplit < 0 THEN maxsplit ELSE maxsplit - 1)

Split(s, sep) == SplitMax(s, sep, -1)

RECURSIVE LStrip(_)
LStrip(s) == IF s # <<>> /\ Head(s) \in Space THEN LStrip(Tail(s)) ELSE s
RECURSIVE RStrip(_)
RStrip(s) == IF s # <<>> /\ s[Len(s)] \in Space THEN RStrip(SubSeq(s, 1, Len(s) - 1)) ELSE s
\* s.strip()
Strip(s) == LStrip(RStrip(s))

RECURSIVE Join(_, _)
\* sep.join(parts)
Join(sep, parts) ==
    IF parts = <<>> THEN <<>>
    ELSE IF Len(parts) = 1 THEN parts[1]
    ELSE parts[1] \o sep \o Join(sep, Tail(parts))

\* ------------------------------------------------------------ configuration

\* An option the configuration file does not set; .get(key, default) then
\* gives the default written at the place of use.
Absent == <<"ABSENT">>
Get(value, default) == IF value = Absent THEN default ELSE value

\* ChatConfig of a configuration file with empty sections. Text-valued options
\* are Absent; a boolean option holds the default of its .get(key, default).
DefaultConfig ==
    [header |-> [keep_data |-> FALSE],
     utterance |->
        [keep_data |-> TRUE, keep_speaker |-> TRUE, nonverbal |-> Absent, interposed |-> TRUE,
         basic |-> [satellite |-> FALSE, tone |-> FALSE, lengthening |-> FALSE,
                    prim_stress |-> FALSE, blocking |-> FALSE, pause |-> FALSE],
         linkers |-> [trail_off |-> FALSE, trail_off_q |-> FALSE, exclamation |-> FALSE,
                      interruption |-> FALSE, completion |-> FALSE, interruption_q |-> FALSE,
                      interruption_self |-> FALSE, interruption_self_q |-> FALSE,
                      trans_break |-> FALSE, quote_precede |-> FALSE, quote_follow |-> FALSE,
                      quote_utterance |-> FALSE, uptake |-> FALSE, latching |-> FALSE],
         incomplete |-> [noncompletion |-> TRUE, omitted |-> TRUE],
         scoped |-> [alternative |-> FALSE, excluded |-> TRUE, back_channel |-> TRUE,
                     include_turn |-> TRUE, postcode |-> TRUE, error |-> FALSE,
                     precode |-> FALSE, paralinguistic |-> Absent, explanation |-> Absent,
                     contra_stressing |-> Absent, stressing |-> Absent, replacement |-> TRUE,
                     repetition |-> FALSE, retracing |-> TRUE, reformulation |-> TRUE,
                     false_start |-> TRUE, clause |-> TRUE],
         specform |-> [singing |-> TRUE, sign |-> TRUE, sas |-> TRUE, babbling |-> Absent,
                       child_invented |-> Absent, dialect |-> TRUE, filled_pause |-> FALSE,
                       family_spec |-> Absent, general |-> FALSE, interjections |-> TRUE,
                       multi_letters |-> TRUE, letter |-> TRUE, neologism |-> FALSE,
                       pcf |-> FALSE, metaling |-> FALSE, l2 |-> TRUE, onomatopoeia |-> TRUE,
                       testword |-> TRUE, unibet |-> FALSE, wordplay |-> Absent,
                       excluded |-> FALSE],
         unidentifiable |-> [unintelligible |-> Absent, phonological |-> Absent,
                             untranscribed |-> Absent],
         disfluency |-> [fragment |-> Absent, filler |-> Absent, nonwords |-> Absent]],
     dependent |-> [keep_data |-> TRUE, action |-> [keep_data |-> TRUE]]]

\* The value a function returns, or the exception it raises with its data.
Returned(v) == [raised |-> "none", v |-> v, data |-> <<>>]
Raised(kind, data) == [raised |-> kind, v |-> <<>>, data |-> data]

\* Text constants of the source.
T_null == <<"n", "u", "l", "l">>
T_keep == <<"k", "e", "e", "p">>
T_unk == <<"u", "n", "k">>
T_UNK == <<"<", "u", "n", "k", ">">>

\* ------------------------------------------------------------ process_basic

\* r'\s\u0015.*?\u0015' and r'\s\·.*?\·'
re_file_error == Cat(<<In(Space), Ch("NAK"), LazyStarNotIn(NotNewline), Ch("NAK")>>)
re_time_mark == Cat(<<In(Space), Ch("MIDDOT"), LazyStarNotIn(NotNewline), Ch("MIDDOT")>>)

\* pause_pattern + r'\)': the closing parenthesis appended to the alternation
\* binds to its last alternative only.
re_pause ==
    AltOf(<<Cat(<<Ch("("), PlusIn({"."}), Ch(")"), OptIn(Space)>>),
            Cat(<<Ch("("), PlusIn(Digit), Ch("."), StarIn(Digit), Ch(")"), OptIn(Space)>>),
            Cat(<<Ch("("), PlusIn(Digit), Ch(":"), PlusIn(Digit), Ch("."), StarIn(Digit),
                  Ch(")"), OptIn(Space)>>),
            Cat(<<Ch("("), PlusIn(Digit), Ch(":"), PlusIn(Digit), Ch(")"), OptIn(Space),
                  Ch(")")>>)>>)

\* process_basic, the lengthening rule: re.sub(r'\:', '', utterance)
basic_lengthening(basic) == Rule(~basic.lengthening, Ch(":"), <<>>)

basic_rules(basic) ==
    <<Rule(TRUE, re_file_error, <<>>),
      Rule(TRUE, re_time_mark, <<>>),
      Rule(~basic.satellite, Ch("DDAGGER"), <<L(<<",">>)>>),
      Rule(~basic.satellite, Ch("LOWQUOTE"), <<L(<<",">>)>>),
      Rule(~basic.tone, Ch("UPARROW"), <<>>),
      Rule(~basic.tone, Ch("DOWNARROW"), <<>>),
      basic_lengthening(basic),
      Rule(~basic.prim_stress, Ch("PRIMSTRESS"), <<>>),
      Rule(~basic.prim_stress, Ch("SECSTRESS"), <<>>),
      Rule(~basic.blocking, Ch("NOTEQUAL"), <<>>),
      Rule(~basic.pause, re_pause, <<>>),
      Rule(~basic.pause, Ch("^"), <<>>)>>

process_basic(utterance, config) == SubAll(basic_rules(config.utterance.basic), utterance)

\* ------------------------------------------------------------ process_linker

\* One rule of process_linker: when the option is off, re.sub(pattern, repl, utterance).
LinkerRule(off, re, repl) == Rule(~off, re, <<L(repl)>>)

linker_rules(lk) ==
    <<LinkerRule(lk.trail_off, Lit(<<"+", ".", ".", ".">>), <<".", ".", ".">>),
      LinkerRule(lk.trail_off_q, Lit(<<"+", ".", ".", "?">>), <<".", ".", ".", "?">>),
      LinkerRule(lk.exclamation, Lit(<<"+", "!", "?">>), <<"!", "?">>),
      LinkerRule(lk.interruption, Lit(<<"+", "/", ".">>), <<".", ".", ".">>),
      LinkerRule(lk.completion, Cat2(Lit(<<"+", ",">>), In(Space)), <<>>),
      LinkerRule(lk.interruption_q, Lit(<<"+", "/", "?">>), <<".", ".", ".", "?">>),
      LinkerRule(lk.interruption_self, Lit(<<"+", "/", "/", ".">>), <<".", ".", ".">>),
      LinkerRule(lk.interruption_self_q, Lit(<<"+", "/", "/", "?">>), <<".", ".", ".", "?">>),
      LinkerRule(lk.trans_break, Lit(<<"+", ".">>), <<".">>),
      LinkerRule(lk.quote_precede, Lit(<<"+", "\"", ".">>), <<".">>),
      LinkerRule(lk.quote_follow, Lit(<<"+", "\"", "/", ".">>), <<":">>),
      LinkerRule(lk.quote_utterance, Cat2(Lit(<<"+", "\"">>), In(Space)), <<>>),
      LinkerRule(lk.uptake, Cat2(Lit(<<"+", "^">>), In(Space)), <<>>),
      LinkerRule(lk.latching, Cat2(Lit(<<"+", "+">>), In(Space)), <<>>)>>

process_linker(utterance, config) == SubAll(linker_rules(config.utterance.linkers), utterance)

\* ------------------------------------------------------------ process_incomplete

\* r'\((.+?)\)', r'\(.*?\)\s*' and r'&=0\w+'
re_noncompletion == Cat(<<Ch("("), Grp(1, LazyPlusNotIn(NotNewline)), Ch(")")>>)
re_noncompletion_drop == Cat(<<Ch("("), LazyStarNotIn(NotNewline), Ch(")"), StarIn(Space)>>)
re_omitted_pos == Cat2(Lit(<<"&", "=", "0">>), PlusIn(WordCh))

incomplete_rules(inc) ==
    <<Rule(inc.noncompletion, re_noncompletion, <<G(1)>>),
      Rule(~inc.noncompletion, re_noncompletion_drop, <<>>),
      Rule(inc.omitted, Lit(<<"&", "=", "0">>), <<>>),
      Rule(~inc.omitted, re_omitted_pos, <<>>)>>

process_incomplete(utterance, config) ==
    SubAll(incomplete_rules(config.utterance.incomplete), utterance)

\* ------------------------------------------------------------ str comparison

\* The characters of the model in code point order (Python compares str by
\* code point).
CodeOrder ==
    <<"\t", "\n", "\f", "\r", "NAK", " ", "!", "\"", "#", "$", "%", "&", "'", "(", ")",
      "*", "+", ",", "-", ".", "/", "0", "1", "2", "3", "4", "5", "6", "7", "8", "9",
      ":", ";", "<", "=", ">", "?", "@", "A", "B", "C", "D", "E", "F", "G", "H", "I",
      "J", "K", "L", "M", "N", "O", "P", "Q", "R", "S", "T", "U", "V", "W", "X", "Y",
      "Z", "[", "\\", "]", "^", "_", "a", "b", "c", "d", "e", "f", "g", "h", "i",
      "j", "k", "l", "m", "n", "o", "p", "q", "r", "s", "t", "u", "v", "w", "x", "y",
      "z", "{", "|", "}", "~", "MIDDOT", "PRIMSTRESS", "SECSTRESS", "LOWQUOTE",
      "DDAGGER", "UPARROW", "DOWNARROW", "NOTEQUAL">>

Ord(c) == CHOOSE i \in DOMAIN CodeOrder : CodeOrder[i] = c

RECURSIVE StrLess(_, _)
\* a < b on str
StrLess(a, b) ==
    IF b = <<>> THEN FALSE
    ELSE IF a = <<>> THEN TRUE
    ELSE IF Head(a) = Head(b) THEN StrLess(Tail(a), Tail(b))
    ELSE Ord(Head(a)) < Ord(Head(b))

\* (start, end, replacement) tuples: a < b
SpanLess(a, b) ==
    \/ a[1] < b[1]
    \/ a[1] = b[1] /\ a[2] < b[2]
    \/ a[1] = b[1] /\ a[2] = b[2] /\ StrLess(a[3], b[3])

RECURSIVE InsertDesc(_, _)
InsertDesc(x, sorted) ==
    IF sorted = <<>> THEN <<x>>
    ELSE IF SpanLess(Head(sorted), x) THEN <<x>> \o sorted
    ELSE <<Head(sorted)>> \o InsertDesc(x, Tail(sorted))

\* The spans taken in the order of the list, with no sorting.
SortedReverse_AsGiven(spans) == spans

RECURSIVE SortedReverse(_)
\* sorted(replacements, reverse=True): descending, equal elements in their order.
SortedReverse(spans) ==
    IF spans = <<>> THEN <<>>
    ELSE LET rest == SortedReverse(SubSeq(spans, 1, Len(spans) - 1))
         IN InsertDesc(spans[Len(spans)], rest)

\* utterance[:start] + replacement + utterance[end:] (Python slices: 0-based,
\* cut to the length of the text).
ApplySpan(utterance, span) ==
    LET n == Len(utterance)
        start == IF span[1] > n THEN n ELSE span[1]
    IN SubSeq(utterance, 1, start) \o span[3] \o SubSeq(utterance, span[2] + 1, n)

RECURSIVE ApplySpans(_, _)
\* for start, end, replacement in spans: utterance = utterance[:start] + ...
ApplySpans(utterance, spans) ==
    IF spans = <<>> THEN utterance
    ELSE ApplySpans(ApplySpan(utterance, Head(spans)), Tail(spans))

\* ------------------------------------------------------------ process_paralinguistic

\* all_identifiers, sorted by length, longest first (sorted is stable).
all_identifiers ==
    <<<<"/", "/", "/">>, <<"=", "!">>, <<"=", "?">>, <<"!", "!">>, <<":", ":">>, <<"/", "/">>, <<"/", "-">>, <<"/", "?">>, <<"^", "c">>,
      <<"=">>, <<"!">>, <<"#">>, <<":">>, <<"%">>, <<"?">>, <<"/">>, <<"x">>, <<"*">>, <<"e">>, <<"+">>,
      <<"-">>, <<"^">>>>

re_identifier == Lits(all_identifiers)

\* r'\+\<\s*' and r'(?:<([^>]+)>|(\S+))\s*\[[<>{}]\d*\]'
re_overlap_follows == Cat2(Lit(<<"+", "<">>), StarIn(Space))
base_pattern ==
    Alt(Cat(<<Ch("<"), Grp(1, PlusNotIn({">"})), Ch(">")>>), Grp(2, PlusNotIn(Space)))
re_overlap ==
    Cat(<<base_pattern, StarIn(Space), Ch("["), In({"<", ">", "{", "}"}), StarIn(Digit),
          Ch("]")>>)

\* One [identifier event] block, with the identifier in group gi and the event in group ge.
IdentifierBlock(gi, ge) ==
    Cat(<<Ch("["), Grp(gi, re_identifier),
          Opt(Cat2(StarIn(Space), Grp(ge, StarNotIn({"]"})))), Ch("]")>>)

identifier_pattern == Cat2(StarIn(Space), IdentifierBlock(3, 4))
full_pattern == Cat2(base_pattern, Plus(identifier_pattern))

\* The overlap marks removed (the else branch of the alternative test).
para_overlap_removed(utterance) ==
    Sub(re_overlap, <<G(1), G(2)>>, Sub(re_overlap_follows, <<>>, utterance))

\* regions = re.finditer(full_pattern, utterance)
para_regions(utterance) == FindIter(full_pattern, utterance, 1)

\* text, start, end (0-based, end exclusive) of one region.
para_text(utterance, m) == IF Group(utterance, m, 1) # <<>> THEN Group(utterance, m, 1)
                           ELSE Group(utterance, m, 2)

\* full_text[len(base_text):] of one region.
para_remaining_text(utterance, m) ==
    SubSeq(utterance, m.s + Len(para_text(utterance, m)), m.e - 1)

\* The (identifier, event) pairs of the blocks found in remaining_text.
para_pairs(remaining_text, found) ==
    [i \in DOMAIN found |->
        <<Group(remaining_text, found[i], 1), Group(remaining_text, found[i], 2)>>]

\* identifier_events of one region: re.findall over full_text[len(base_text):].
para_identifier_events(utterance, m) ==
    para_pairs(para_remaining_text(utterance, m),
               FindIter(IdentifierBlock(1, 2), para_remaining_text(utterance, m), 1))

\* f'<{tag}> {event} <sep> {text} </{tag}>' and f'<{tag}> {text} </{tag}>'
TagEvent(tag, event, text) ==
    <<"<">> \o tag \o <<">", " ">> \o event \o <<" ", "<", "s", "e", "p", ">", " ">> \o text \o <<" ", "<", "/">> \o tag \o <<">">>
TagText(tag, text) == <<"<">> \o tag \o <<">", " ">> \o text \o <<" ", "<", "/">> \o tag \o <<">">>

Veto == [act |-> "veto", span |-> <<0, 0, <<>>>>]
AssertFails == [act |-> "assert", span |-> <<0, 0, <<>>>>]
Skip == [act |-> "skip", span |-> <<0, 0, <<>>>>]
Span(start, end, replacement) == [act |-> "span", span |-> <<start, end, replacement>>]

\* The branch of identifier '+': excluded material (exc), back channel (bch),
\* included turn (trn), any other postcode.
PostcodeAction(event, text, start, end, scope_cfg) ==
    IF event = <<"e", "x", "c">> THEN (IF scope_cfg.excluded THEN Veto ELSE Span(start, end, text))
    ELSE IF event = <<"b", "c", "h">> THEN (IF scope_cfg.back_channel THEN Veto ELSE Span(start, end, text))
    ELSE IF event = <<"t", "r", "n">> THEN (IF scope_cfg.include_turn THEN Span(start, end, text) ELSE Veto)
    ELSE (IF scope_cfg.postcode THEN Veto ELSE Span(start, end, text))

\* The body of `for identifier, event in identifier_events`: what one
\* identifier block does: return '' (veto), fail an assert, or append a span.
IdentifierAction(identifier, event, text, start, end, scope_cfg) ==
    LET etc == text \o <<" ", ".", ".", ".">>
    IN
    CASE identifier = <<"+">> -> PostcodeAction(event, text, start, end, scope_cfg)
      [] identifier = <<"e">> ->
            IF scope_cfg.excluded THEN Span(start, end + 1, <<>>) ELSE Span(start, end, text)
      [] identifier = <<"*">> ->
            IF scope_cfg.error THEN Veto ELSE Span(start, end + 1, <<>>)
      [] identifier = <<"-">> ->
            IF scope_cfg.precode THEN Veto ELSE Span(start, end + 1, <<>>)
      [] identifier \in {<<"^">>, <<"=", "!">>} ->
            LET tag == Get(scope_cfg.paralinguistic, <<"E", "N", "V">>)
            IN IF tag # T_null THEN Span(start, end, TagEvent(tag, event, text))
               ELSE Span(start, end, text)
      [] identifier = <<"=", "?">> ->
            IF scope_cfg.alternative THEN Span(start, end, event) ELSE Span(start, end, text)
      [] identifier \in {<<"=">>, <<"%">>} ->
            LET tag == Get(scope_cfg.explanation, T_null)
            IN IF tag # T_null THEN Span(start, end, TagEvent(tag, event, text))
               ELSE Span(start, end, text)
      [] identifier = <<"!", "!">> ->
            LET tag == Get(scope_cfg.contra_stressing, <<"s", "t", "r", "e", "s", "s">>)
            IN IF event # <<>> THEN AssertFails
               ELSE IF tag # T_null THEN Span(start, end, TagText(tag, text))
               ELSE Span(start, end, text)
      [] identifier = <<"!">> ->
            LET tag == Get(scope_cfg.stressing, <<"s", "t", "r", "e", "s", "s">>)
            IN IF event # <<>> THEN AssertFails
               ELSE IF tag # T_null THEN Span(start, end, TagText(tag, text))
               ELSE Span(start, end, text)
      [] identifier = <<"#">> -> Span(start, end, text)
      [] identifier = <<"?">> -> Span(start, end, text)
      [] identifier \in {<<":">>, <<":", ":">>} ->
            IF scope_cfg.replacement THEN Span(start, end, event) ELSE Span(start, end, text)
      [] identifier \in {<<"/">>, <<"x">>} ->
            IF scope_cfg.repetition THEN Span(start, end, text) ELSE Span(start, end + 1, <<>>)
      [] identifier = <<"/", "/">> ->
            IF scope_cfg.retracing THEN Span(start, end, etc) ELSE Span(start, end + 1, <<>>)
      [] identifier = <<"/", "/", "/">> ->
            IF scope_cfg.reformulation THEN Span(start, end, etc) ELSE Span(start, end + 1, <<>>)
      [] identifier = <<"/", "-">> ->
            IF scope_cfg.false_start THEN Span(start, end, etc) ELSE Span(start, end + 1, <<>>)
      [] identifier = <<"^", "c">> ->
            IF scope_cfg.clause THEN Span(start, end, text) ELSE Span(start, end + 1, <<>>)
      [] OTHER -> Skip

\* The actions of the identifier events evs of one region, in order.
para_events_actions(evs, text, start, end, scope_cfg) ==
    [i \in DOMAIN evs |-> IdentifierAction(evs[i][1], evs[i][2], text, start, end, scope_cfg)]

\* The actions of one region, one per identifier block.
para_region_actions(utterance, m, scope_cfg) ==
    para_events_actions(para_identifier_events(utterance, m), para_text(utterance, m),
                        m.s - 1, m.e - 1, scope_cfg)

\* The actions of the regions in the order the two nested loops take them.
para_regions_actions(utterance, regions, scope_cfg) ==
    Flatten([i \in DOMAIN regions |-> para_region_actions(utterance, regions[i], scope_cfg)])

para_actions(utterance, scope_cfg) ==
    para_regions_actions(utterance, para_regions(utterance), scope_cfg)

RECURSIVE FirstExit(_)
\* The first action that leaves the loops (a veto or a failed assert), "none" if none does.
FirstExit(actions) ==
    IF actions = <<>> THEN "none"
    ELSE IF Head(actions).act \in {"veto", "assert"} THEN Head(actions).act
    ELSE FirstExit(Tail(actions))

RECURSIVE SpansOf(_)
\* replacements: the spans appended, in order.
SpansOf(actions) ==
    IF actions = <<>> THEN <<>>
    ELSE (IF Head(actions).act = "span" THEN <<Head(actions).span>> ELSE <<>>)
         \o SpansOf(Tail(actions))

\* The end of process_paralinguistic for the actions of its loops: return ''
\* at the first veto, AssertionError at a failed assert, and otherwise the
\* spans applied from the right.
para_outcome(utterance, actions, exit) ==
    IF exit = "veto" THEN Returned(<<>>)
    ELSE IF exit = "assert" THEN Raised("AssertionError", <<>>)
    ELSE Returned(ApplySpans(utterance, SortedReverse(SpansOf(actions))))

para_scan(utterance, actions) == para_outcome(utterance, actions, FirstExit(actions))

para_body(utterance, scope_cfg) == para_scan(utterance, para_actions(utterance, scope_cfg))

\* The function without its test of the alternative option.
process_paralinguistic_no_test(utterance, config) ==
    para_body(para_overlap_removed(utterance), config.utterance.scoped)

process_paralinguistic(utterance, config) ==
    IF config.utterance.scoped.alternative THEN Raised("NotImplementedError", <<>>)
    ELSE para_body(para_overlap_removed(utterance), config.utterance.scoped)

RECURSIVE BeforeExit(_)
\* The actions the loops take before they are left.
BeforeExit(actions) ==
    IF actions = <<>> THEN <<>>
    ELSE IF Head(actions).act \in {"veto", "assert"} THEN <<>>
    ELSE <<Head(actions)>> \o BeforeExit(Tail(actions))

\* replacements: the spans process_paralinguistic has collected when it
\* leaves its loops.
para_replacements(utterance, config) ==
    IF config.utterance.scoped.alternative THEN <<>>
    ELSE SpansOf(BeforeExit(para_actions(para_overlap_removed(utterance),
                                         config.utterance.scoped)))

\* ------------------------------------------------------------ process_special_form

\* [^<>\s]
FormCh == {"<", ">"} \cup Space

\* r'([^<>\s]+)@sfx\b' and r'\s*[^<>\s]+@sfx\b\s*'
re_form(sfx) == Cat(<<Grp(1, PlusNotIn(FormCh)), Lit(<<"@">> \o sfx), WB>>)
re_form_spaced(sfx) ==
    Cat(<<StarIn(Space), PlusNotIn(FormCh), Lit(<<"@">> \o sfx), WB, StarIn(Space)>>)
\* r'([^<>\s]+)@s[:$][^<>\s]+\b'
re_form_l2 == Cat(<<Grp(1, PlusNotIn(FormCh)), Lit(<<"@", "s">>), In({":", "$"}), PlusNotIn(FormCh), WB>>)

\* f'<{env_tag}> sings <sep> ' + r'\1' + f' </{env_tag}>'
FormEvent(env_tag, what) ==
    <<L(<<"<">> \o env_tag \o <<">", " ">> \o what \o <<" ", "<", "s", "e", "p", ">", " ">>), G(1), L(<<" ", "<", "/">> \o env_tag \o <<">">>)>>

\* if option: re.sub(pattern, yes, ...) else: re.sub(other, no, ...)
FormRule(option, pattern, yes, other, no) ==
    IF option THEN Rule(TRUE, pattern, yes) ELSE Rule(TRUE, other, no)

special_form_rules(sf, env_tag, pho_tag) ==
    <<FormRule(sf.singing, re_form(<<"s", "i">>), FormEvent(env_tag, <<"s", "i", "n", "g", "s">>), re_form(<<"s", "i">>), <<G(1)>>),
      FormRule(sf.sign, re_form(<<"s", "l">>), FormEvent(env_tag, <<"s", "i", "g", "n", " ", "l", "a", "n", "g", "u", "a", "g", "e">>),
               re_form(<<"s", "l">>), <<G(1)>>),
      FormRule(sf.sas, re_form(<<"s", "l">>), FormEvent(env_tag, <<"s", "i", "g", "n", " ", "l", "a", "n", "g", "u", "a", "g", "e">>),
               re_form(<<"s", "l">>), <<G(1)>>),
      Rule(TRUE, re_form(<<"b">>), <<L(Get(sf.babbling, T_UNK))>>),
      Rule(TRUE, re_form(<<"c">>), <<L(Get(sf.child_invented, T_UNK))>>),
      FormRule(sf.dialect, re_form(<<"d">>), <<G(1)>>, re_form(<<"d">>), <<L(T_UNK)>>),
      FormRule(sf.filled_pause, re_form(<<"f", "p">>), <<L(T_UNK)>>,
               re_form_spaced(<<"f", "p">>), <<L(<<" ">>)>>),
      Rule(TRUE, re_form(<<"f">>), <<L(Get(sf.family_spec, T_UNK))>>),
      FormRule(sf.general, re_form(<<"g">>), <<L(T_UNK)>>, re_form_spaced(<<"g">>), <<L(<<" ">>)>>),
      FormRule(sf.interjections, re_form(<<"i">>), <<G(1)>>, re_form(<<"i">>), <<L(T_UNK)>>),
      FormRule(sf.multi_letters, re_form(<<"k">>), <<GF(1, "spell")>>, re_form(<<"k">>), <<L(T_UNK)>>),
      FormRule(sf.letter, re_form(<<"l">>), <<GF(1, "upper")>>, re_form(<<"l">>), <<L(T_UNK)>>),
      FormRule(sf.neologism, re_form(<<"n">>), <<G(1), L(<<" ", "<", "n", "e", "o", ">">>)>>, re_form(<<"n">>), <<G(1)>>),
      FormRule(sf.pcf, re_form(<<"p">>), <<G(1)>>, re_form(<<"p">>), <<L(T_UNK)>>),
      FormRule(sf.metaling, re_form(<<"q">>), <<L(<<"\"">>), G(1), L(<<"\"">>)>>,
               re_form(<<"q">>), <<G(1)>>),
      FormRule(sf.l2, re_form_l2, <<G(1)>>, re_form_l2, <<L(T_UNK)>>),
      FormRule(sf.onomatopoeia, re_form(<<"o">>), <<GF(1, "unders")>>, re_form(<<"o">>), <<L(T_UNK)>>),
      FormRule(sf.testword, re_form(<<"t">>), <<G(1)>>, re_form(<<"t">>), <<L(T_UNK)>>),
      FormRule(sf.unibet, re_form(<<"u">>), <<G(1)>>, re_form(<<"u">>), <<L(pho_tag)>>),
      Rule(TRUE, re_form(<<"w", "p">>), <<L(Get(sf.wordplay, T_UNK))>>),
      FormRule(sf.excluded, re_form(<<"x">>), <<G(1)>>, re_form(<<"x">>), <<L(T_UNK)>>)>>

process_special_form(utterance, config) ==
    SubAll(special_form_rules(config.utterance.specform,
                              Get(config.utterance.scoped.paralinguistic, <<"E", "N", "V">>),
                              Get(config.utterance.unidentifiable.phonological, <<"<", "p", "h", "o", ">">>)),
           utterance)

\* ------------------------------------------------------------ nonverbal token

\* process_utterance: marker = ...get('nonverbal', '<0>'); re.sub(r'0', marker, utterance)
nonverbal_token(utterance, config) ==
    Sub(Ch("0"), <<L(Get(config.utterance.nonverbal, <<"<", "0", ">">>))>>, utterance)

\* ------------------------------------------------------------ process_local_event

\* r'&=(\w+)(?::(\w+))?'
re_simple_event ==
    Cat(<<Lit(<<"&", "=">>), Grp(1, PlusIn(WordCh)), Opt(Cat2(Ch(":"), Grp(2, PlusIn(WordCh))))>>)
\* r'&\{(l|n)=(\w+)(?::(\w+))?\s*(.*?)\s*&}\1=\2(?::\3)?'
re_complex_event ==
    Cat(<<Lit(<<"&", "{">>), Grp(1, In({"l", "n"})), Ch("="), Grp(2, PlusIn(WordCh)),
          Opt(Cat2(Ch(":"), Grp(3, PlusIn(WordCh)))), StarIn(Space),
          Grp(4, LazyStarNotIn(NotNewline)), StarIn(Space), Lit(<<"&", "}">>), Ref(1), Ch("="),
          Ref(2), Opt(Cat2(Ch(":"), Ref(3)))>>)

\* The replacement of one event: the tagged event, or the bare nonverbal token.
EventReplacement(env_tag, event, nonverbal) ==
    IF env_tag # T_null
    THEN <<"<">> \o env_tag \o <<">", " ">> \o event \o <<" ", "<", "s", "e", "p", ">", " ">> \o nonverbal \o <<" ", "<", "/">> \o env_tag \o <<">">>
    ELSE nonverbal

\* The event text of a simple and of a complex match.
simple_event(utterance, m) ==
    IF Group(utterance, m, 2) # <<>>
    THEN Group(utterance, m, 1) \o <<" ">> \o Group(utterance, m, 2)
    ELSE Group(utterance, m, 1)

complex_event(utterance, m) ==
    IF Group(utterance, m, 3) # <<>>
    THEN Strip(Group(utterance, m, 2) \o <<" ">> \o Group(utterance, m, 3) \o <<" ">>
               \o Strip(Group(utterance, m, 4)))
    ELSE Strip(Group(utterance, m, 2) \o <<" ">> \o Strip(Group(utterance, m, 4)))

\* The (start, end, replacement) tuples of the two loops over the matches.
event_spans(utterance, simple, complex, env_tag, nonverbal) ==
    [i \in DOMAIN simple |->
        <<simple[i].s - 1, simple[i].e - 1,
          EventReplacement(env_tag, simple_event(utterance, simple[i]), nonverbal)>>]
    \o [i \in DOMAIN complex |->
        <<complex[i].s - 1, complex[i].e - 1,
          EventReplacement(env_tag, complex_event(utterance, complex[i]), nonverbal)>>]

local_event_replacements(utterance, config) ==
    event_spans(utterance, FindIter(re_simple_event, utterance, 1),
                FindIter(re_complex_event, utterance, 1),
                Get(config.utterance.scoped.paralinguistic, <<"E", "N", "V">>),
                Get(config.utterance.nonverbal, <<"<", "0", ">">>))

process_local_event(utterance, config) ==
    ApplySpans(utterance, SortedReverse(local_event_replacements(utterance, config)))

\* ------------------------------------------------------------ process_disfluencies

\* r'&\+[^<>\s]+\s+', r'&\+([^<>\s]+\s+)' and r'&\+[^<>\s]+' for the marker
\* character of one family (+ fragment, - filler, ~ nonword).
re_disfluency_null(mark) == Cat(<<Ch("&"), Ch(mark), PlusNotIn(FormCh), PlusIn(Space)>>)
re_disfluency_keep(mark) == Cat(<<Ch("&"), Ch(mark), Grp(1, Cat2(PlusNotIn(FormCh), PlusIn(Space)))>>)
re_disfluency_unk(mark) == Cat(<<Ch("&"), Ch(mark), PlusNotIn(FormCh)>>)

DisfluencyHandles == {T_null, T_keep, T_unk}

\* One family of process_disfluencies under a valid handle.
DisfluencyRule(mark, handle) ==
    IF handle = T_null THEN Rule(TRUE, re_disfluency_null(mark), <<>>)
    ELSE IF handle = T_keep THEN Rule(TRUE, re_disfluency_keep(mark), <<G(1)>>)
    ELSE Rule(TRUE, re_disfluency_unk(mark), <<L(T_UNK)>>)

disfluency_rules(fragment, filler, nonwords) ==
    <<DisfluencyRule("+", fragment), DisfluencyRule("-", filler), DisfluencyRule("~", nonwords)>>

\* The families with no look at the options for a text without a marker.
disfluencies_markers_first(utterance, disfluencies_cfg, fragment, filler, nonwords) ==
    IF ~Contains(utterance, <<"&">>) THEN Returned(utterance)
    ELSE IF {fragment, filler, nonwords} \subseteq DisfluencyHandles
    THEN Returned(SubAll(disfluency_rules(fragment, filler, nonwords), utterance))
    ELSE Raised("DataIntegrityError", disfluencies_cfg)

\* The families in their order: fragment, filler, nonword. A handle outside
\* the three raises with the disfluency configuration.
disfluencies(utterance, disfluencies_cfg, fragment, filler, nonwords) ==
    IF {fragment, filler, nonwords} \subseteq DisfluencyHandles
    THEN Returned(SubAll(disfluency_rules(fragment, filler, nonwords), utterance))
    ELSE Raised("DataIntegrityError", disfluencies_cfg)

process_disfluencies(utterance, config) ==
    disfluencies(utterance, config.utterance.disfluency,
                 Get(config.utterance.disfluency.fragment, T_null),
                 Get(config.utterance.disfluency.filler, T_null),
                 Get(config.utterance.disfluency.nonwords, T_null))

\* ------------------------------------------------------------ process_unidentifiable

unidentifiable_rules(unid) ==
    <<Rule(TRUE, Lit(<<"x", "x", "x">>), <<L(Get(unid.unintelligible, T_UNK))>>),
      Rule(TRUE, Lit(<<"y", "y", "y">>), <<L(Get(unid.phonological, T_UNK))>>),
      Rule(TRUE, Lit(<<"w", "w", "w">>), <<L(Get(unid.untranscribed, T_UNK))>>)>>

process_unidentifiable(utterance, config) ==
    SubAll(unidentifiable_rules(config.utterance.unidentifiable), utterance)

\* ------------------------------------------------------------ process_utterance

\* The statements with process_special_form ahead of process_paralinguistic.
utterance_stages_swapped ==
    <<"process_basic", "process_linker", "process_incomplete", "process_special_form",
      "process_paralinguistic", "nonverbal_token", "process_local_event",
      "process_disfluencies", "process_unidentifiable">>

\* The rewriting statements of process_utterance, in the order of the source.
utterance_stages ==
    <<"process_basic", "process_linker", "process_incomplete", "process_paralinguistic",
      "process_special_form", "nonverbal_token", "process_local_event",
      "process_disfluencies", "process_unidentifiable">>

\* utterance = stage(utterance, config) for one statement of the list.
RunStage(name, utterance, config) ==
    CASE name = "process_basic" -> Returned(process_basic(utterance, config))
      [] name = "process_linker" -> Returned(process_linker(utterance, config))
      [] name = "process_incomplete" -> Returned(process_incomplete(utterance, config))
      [] name = "process_paralinguistic" -> process_paralinguistic(utterance, config)
      [] name = "process_special_form" -> Returned(process_special_form(utterance, config))
      [] name = "nonverbal_token" -> Returned(nonverbal_token(utterance, config))
      [] name = "process_local_event" -> Returned(process_local_event(utterance, config))
      [] name = "process_disfluencies" -> process_disfluencies(utterance, config)
      [] name = "process_unidentifiable" -> Returned(process_unidentifiable(utterance, config))

RECURSIVE RunStages(_, _, _, _)
\* The statements run one after the other, each on the text the one before it
\* left; an exception ends the run. calls records every call made: the stage,
\* the text it was given, the text it returned.
RunStages(names, utterance, config, calls) ==
    IF names = <<>> THEN [raised |-> "none", v |-> utterance, data |-> <<>>, calls |-> calls]
    ELSE CHOOSE result \in
            {IF r.raised # "none"
             THEN [raised |-> r.raised, v |-> <<>>, data |-> r.data,
                   calls |-> Append(calls, [stage |-> Head(names), given |-> utterance,
                                            returned |-> <<>>, raised |-> r.raised])]
             ELSE RunStages(Tail(names), r.v, config,
                            Append(calls, [stage |-> Head(names), given |-> utterance,
                                           returned |-> r.v, raised |-> "none"]))
               : r \in {RunStage(Head(names), utterance, config)}} : TRUE

\* The return statement of process_utterance after the stages.
utterance_return(speaker, run) ==
    IF run.raised # "none" THEN run
    ELSE [raised |-> "none", v |-> <<TRUE, speaker, run.v>>, data |-> <<>>, calls |-> run.calls]

\* speaker = '<' + speaker_id[1:] + '>' when speakers are kept, else ''
speaker_token(speaker_id, config) ==
    IF config.utterance.keep_speaker
    THEN <<"<">> \o SubSeq(speaker_id, 2, Len(speaker_id)) \o <<">">>
    ELSE <<>>

\* process_utterance after the split of the line.
utterance_of_parts(input_line, parts, config) ==
    IF Len(parts) # 2
    THEN [raised |-> "DataIntegrityError", v |-> <<>>, data |-> input_line, calls |-> <<>>]
    ELSE IF ~config.utterance.keep_data
    THEN [raised |-> "none", v |-> <<FALSE, <<>>>>, data |-> <<>>, calls |-> <<>>]
    ELSE utterance_return(speaker_token(parts[1], config),
                          RunStages(utterance_stages, parts[2], config, <<>>))

\* process_utterance: v is the returned tuple, (False, '') when the utterances
\* are not kept and (True, speaker, utterance) otherwise.
process_utterance(input_line, config) ==
    utterance_of_parts(input_line, Split(input_line, <<":", "\t">>), config)

\* ------------------------------------------------------------ process_dependent_tier

ActionTiers == {<<"a", "c", "t">>, <<"s", "i", "t">>, <<"g", "p", "x">>}

\* v is the returned triple (keep, tier, content).
process_dependent_tier(input_line, config) ==
    LET parts == Split(input_line, <<":", "\t">>)
        tier == SubSeq(parts[1], 2, Len(parts[1]))
        env_tag == Get(config.utterance.scoped.paralinguistic, <<"E", "N", "V">>)
        nonverbal == Get(config.utterance.nonverbal, <<"<", "0", ">">>)
        content == <<"<">> \o env_tag \o <<">", " ">> \o Strip(parts[2]) \o <<" ", "<", "s", "e", "p", ">", " ">> \o nonverbal
                   \o <<" ", "<", "/">> \o env_tag \o <<">">> \o <<"\n">>
    IN IF Len(parts) # 2 THEN Raised("DataIntegrityError", input_line)
       ELSE IF ~config.dependent.keep_data THEN Returned(<<FALSE, tier, <<>>>>)
       ELSE IF tier \in ActionTiers
       THEN IF config.dependent.action.keep_data /\ env_tag # T_null
            THEN Returned(<<TRUE, tier, content>>)
            ELSE Returned(<<FALSE, tier, <<>>>>)
       ELSE Returned(<<FALSE, tier, <<>>>>)

\* ------------------------------------------------------------ process_header

\* The header kept whatever header.keep_data says.
process_header_kept(input_line, config) == <<TRUE, input_line>>

\* return config.header.get('keep_data', False), input_line
process_header(input_line, config) == <<config.header.keep_data, input_line>>

\* ------------------------------------------------------------ split_interposed

\* The first element of the list the source builds: a plain string literal,
\* its braces are not interpolated.
interposed_first_literal == <<"{", "s", "p", "e", "a", "k", "e", "r", "_", "i", "d", "}", ":", "\t", "{", "f", "i", "r", "s", "t", "_", "p", "a", "r", "t", ".", "s", "t", "r", "i", "p", "(", ")", "}", " ", "+", ".">>

split_interposed(input_line, config) ==
    LET line_parts == SplitMax(input_line, <<":", "\t">>, 1)
        speaker_id == line_parts[1]
        utterance == line_parts[2]
        parts == SplitMax(utterance, <<"&", "*">>, 1)
        first_part == parts[1]
        rem_parts == SplitMax(parts[2], <<":">>, 1)
        interpose_speaker == rem_parts[1]
        second_part == Strip(rem_parts[2])
        rest == Join(<<" ">>, Tail(Split(second_part, <<" ">>)))
    IN IF Len(line_parts) # 2 THEN Raised("ValueError", <<>>)
       ELSE IF ~Contains(utterance, <<"&", "*">>) THEN Raised("UnboundLocalError", <<>>)
       ELSE IF Len(rem_parts) # 2 THEN Raised("ValueError", <<>>)
       ELSE IF config.utterance.interposed
       THEN Returned(<<interposed_first_literal,
                       <<"*">> \o interpose_speaker \o <<":", "\t">>
                           \o SplitMax(second_part, <<" ">>, 1)[1] \o <<" ", ".">>,
                       speaker_id \o <<":", "\t">> \o rest \o <<"\n">> >>)
       ELSE Returned(<<speaker_id \o <<":", "\t">> \o Strip(first_part) \o <<" ">> \o rest \o <<"\n">> >>)

\* ------------------------------------------------------------ split_sync_rel

\* r'(<[^>]+>)\s+([^<]+)'
re_sync_rel ==
    Cat(<<Grp(1, Cat(<<Ch("<"), PlusNotIn({">"}), Ch(">")>>)), PlusIn(Space),
          Grp(2, PlusNotIn({"<"}))>>)

\* A dict is the sequence of its (key, value) pairs in insertion order.
DictKeys(d) == {d[i][1] : i \in DOMAIN d}
DictGet(d, key) == d[CHOOSE i \in DOMAIN d : d[i][1] = key][2]
\* d[key] = value
DictSet(d, key, value) ==
    IF key \in DictKeys(d)
    THEN [i \in DOMAIN d |-> IF d[i][1] = key THEN <<key, value>> ELSE d[i]]
    ELSE Append(d, <<key, value>>)

RECURSIVE sync_rel_dict(_, _, _)
\* The loop of split_sync_rel over the (tag, action) matches.
sync_rel_dict(matches, content, env_dict) ==
    IF matches = <<>> THEN env_dict
    ELSE LET tag == Group(content, Head(matches), 1)
             action == Strip(Group(content, Head(matches), 2))
             next == IF tag = <<"<", "a", "f", "t", ">">> THEN DictSet(env_dict, "env_aft", <<action>>)
                     ELSE IF tag = <<"<", "b", "e", "f", ">">> THEN DictSet(env_dict, "env_bef", <<action>>)
                     ELSE DictSet(env_dict, "env_dur", Append(DictGet(env_dict, "env_dur"), action))
         IN sync_rel_dict(Tail(matches), content, next)

split_sync_rel(input_line, config) ==
    LET parts == Split(input_line, <<":", "\t">>)
        content == IF parts[2][1] # "<" THEN <<"<", "d", "u", "r", ">", " ">> \o parts[2] ELSE parts[2]
    IN IF Len(parts) # 2 THEN Raised("DataIntegrityError", input_line)
       ELSE IF parts[2] = <<>> THEN Raised("IndexError", <<>>)
       ELSE Returned(sync_rel_dict(FindIter(re_sync_rel, content, 1), content,
                                   <<<<"env_dur", <<>>>>>>))

\* ------------------------------------------------------------------ UnitTurn

\* The list-valued attributes of a UnitTurn and its one string attribute.
ListAttrs == {"head", "utt", "sit", "env_bef", "env_dur", "env_aft"}
StrAttrs == {"speaker"}
\* Names hasattr() finds on the object that are neither a list nor a string.
MethodAttrs == {"update", "to_list"}

\* UnitTurn.__init__
UnitTurnNew ==
    [speaker |-> <<>>, head |-> <<>>, utt |-> <<>>, sit |-> <<>>,
     env_bef |-> <<>>, env_dur |-> <<>>, env_aft |-> <<>>]

\* An update that hands back a fresh turn when it raises.
update_fresh_on_error(turn, content, attribute) ==
    IF attribute \in ListAttrs
    THEN [turn |-> [turn EXCEPT ![attribute] = Append(@, content)], raised |-> "none"]
    ELSE IF attribute \in StrAttrs
    THEN [turn |-> [turn EXCEPT ![attribute] = content], raised |-> "none"]
    ELSE [turn |-> UnitTurnNew, raised |-> "DataIntegrityError"]

\* UnitTurn.update: the turn afterwards and the exception raised ("none": returned).
update(turn, content, attribute) ==
    IF attribute \in ListAttrs
    THEN [turn |-> [turn EXCEPT ![attribute] = Append(@, content)], raised |-> "none"]
    ELSE IF attribute \in StrAttrs
    THEN [turn |-> [turn EXCEPT ![attribute] = content], raised |-> "none"]
    ELSE [turn |-> turn, raised |-> "DataIntegrityError"]

\* A to_list that follows its docstring's order for the last fields wrongly.
to_list_UttFirst(turn) ==
    turn.head \o turn.sit \o turn.env_bef \o turn.utt \o turn.env_dur \o turn.env_aft

\* UnitTurn.to_list
to_list(turn) ==
    turn.head \o turn.sit \o turn.env_bef \o turn.env_dur \o turn.utt \o turn.env_aft

\* ------------------------------------------------------------ process_cha_file

\* A file that was not written, and a file with its lines.
NoFile == [exists |-> FALSE, lines |-> <<>>]
FileOf(lines) == [exists |-> TRUE, lines |-> lines]
NoError == [kind |-> "none", data |-> <<>>]

\* The lines of the input files.
LineSet ==
    {<<"@", "H", "\n">>, <<"*", "A", ":", "\t", "h", "i", ":", " ", "&", "-", "u", "m", " ", "x", "x", "x", " ", ".", "\n">>, <<"*", "A", ":", "\t", "n", "o", " ", "[", "+", " ", "e", "x", "c", "]", "\n">>, <<"*", "A", " ", "h", "i", "\n">>,
     <<"*", "A", ":", "\t", "a", " ", "&", "*", "B", ":", "b", " ", "c", "\n">>, <<"*", "A", " ", "a", " ", "&", "*", "B", ":", "b", "\n">>, <<"%", "a", "c", "t", ":", "\t", "x", "\n">>, <<"%", "a", "c", "t", ":", "\t", "u", " ", "<", "b", "e", "f", ">", " ", "y", " ", "<", "b", "e", "f", ">", " ", "z", " ", "<", "a", "f", "t", ">", " ", "w", "\n">>,
     <<"%", "a", "c", "t", " ", "x", "\n">>, <<"%", "a", "c", "t", " ", "<", "b", "e", "f", ">", " ", "y", "\n">>, <<"x", "\n">>, <<"%", "m", "o", "r", ":", "\t", "z", "\n">>,
     <<"%", "m", "o", "r", ":", "\t", "<", "b", "e", "f", ">", " ", "z", "\n">>}

\* The configurations of the runs: the defaults, headers kept, utterances not
\* kept, a filler option outside its enumeration, alternative transcriptions
\* asked for.
KeepHeaderConfig == [DefaultConfig EXCEPT !.header.keep_data = TRUE]
DropUtteranceConfig == [DefaultConfig EXCEPT !.utterance.keep_data = FALSE]
BadFillerConfig == [DefaultConfig EXCEPT !.utterance.disfluency.filler = <<"b", "a", "d">>]
AlternativeConfig == [DefaultConfig EXCEPT !.utterance.scoped.alternative = TRUE]
ConfigSet ==
    {DefaultConfig, KeepHeaderConfig, DropUtteranceConfig, BadFillerConfig, AlternativeConfig}

SeqRange(s) == {s[i] : i \in DOMAIN s}

\* The texts process_utterance is called on: the utterance lines, and the
\* fragments split_interposed makes of them.
UtteranceInputs ==
    {l \in LineSet : StartsWith(l, <<"*">>)}
    \cup UNION {SeqRange(split_interposed(l, c).v) :
                   l \in {x \in LineSet : StartsWith(x, <<"*">>) /\ Contains(x, <<"&", "*">>)},
                   c \in ConfigSet}

\* process_utterance over these texts and configurations, computed once.
ProcessUtterance ==
    [c \in ConfigSet |-> [l \in UtteranceInputs |-> process_utterance(l, c)]]

RECURSIVE Updated(_, _)
\* The turn after the calls unit_turn.update(content, attribute) of a list of
\* <<attribute, content>> pairs.
Updated(turn, updates) ==
    IF updates = <<>> THEN turn
    ELSE Updated(update(turn, Head(updates)[2], Head(updates)[1]).turn, Tail(updates))

\* What the handling of a line comes to: the update calls it makes on
\* unit_turn, the exception that ends it, the process_utterance calls it made.
Handled(updates, calls) == [raised |-> "none", data |-> <<>>, updates |-> updates, calls |-> calls]
Failed(kind, data, updates, calls) ==
    [raised |-> kind, data |-> data, updates |-> updates, calls |-> calls]

\* A handling followed by the rest of its loop: an exception ends the loop.
Then(first, rest) ==
    IF first.raised # "none" THEN first
    ELSE [rest EXCEPT !.updates = first.updates \o @, !.calls = first.calls \o @]

\* keep_data, speaker, line = r; if keep_data: the updates of speaker and
\* utt. Unpacking a pair into three names raises ValueError.
unpack_utterance(line, r) ==
    IF r.raised # "none" THEN Failed(r.raised, r.data, <<>>, <<[line |-> line, result |-> r]>>)
    ELSE IF Len(r.v) # 3 THEN Failed("ValueError", <<>>, <<>>, <<[line |-> line, result |-> r]>>)
    ELSE IF r.v[1]
    THEN Handled(<<<<"speaker", r.v[2]>>, <<"utt", r.v[2] \o <<" ">> \o r.v[3]>>>>,
                 <<[line |-> line, result |-> r]>>)
    ELSE Handled(<<>>, <<[line |-> line, result |-> r]>>)

\* The default branch of an utterance line.
utterance_updates(line, cfg) == unpack_utterance(line, ProcessUtterance[cfg][line])

RECURSIVE split_updates(_, _)
\* for line_split in lines_split: the same for every fragment, in order.
split_updates(lines_split, cfg) ==
    IF lines_split = <<>> THEN Handled(<<>>, <<>>)
    ELSE Then(utterance_updates(Head(lines_split), cfg), split_updates(Tail(lines_split), cfg))

\* The branch of an utterance line with interposed words.
split_result_updates(lines_split, cfg) ==
    IF lines_split.raised # "none" THEN Failed(lines_split.raised, lines_split.data, <<>>, <<>>)
    ELSE split_updates(lines_split.v, cfg)

interposed_updates(line, cfg) == split_result_updates(split_interposed(line, cfg), cfg)

\* An unpacking that stores every kept event as an after-event.
unpack_dependent_after(r, order) ==
    IF r.raised # "none" THEN Failed(r.raised, r.data, <<>>, <<>>)
    ELSE IF r.v[1] THEN Handled(<<<<"env_aft", r.v[3]>>>>, <<>>)
    ELSE Handled(<<>>, <<>>)

\* keep_data, tier, line = r; if keep_data: unit_turn.update(line, order)
unpack_dependent(r, order) ==
    IF r.raised # "none" THEN Failed(r.raised, r.data, <<>>, <<>>)
    ELSE IF r.v[1] THEN Handled(<<<<order, r.v[3]>>>>, <<>>)
    ELSE Handled(<<>>, <<>>)

dependent_updates(line, order, cfg) == unpack_dependent(process_dependent_tier(line, cfg), order)

RECURSIVE events_updates(_, _, _)
\* for event in events: event = '%act:\t' + event, then as above.
events_updates(events, order, cfg) ==
    IF events = <<>> THEN Handled(<<>>, <<>>)
    ELSE Then(dependent_updates(<<"%", "a", "c", "t", ":", "\t">> \o Head(events), order, cfg),
              events_updates(Tail(events), order, cfg))

RECURSIVE ordered_updates(_, _)
\* for order, events in ordered_events.items()
ordered_updates(ordered_events, cfg) ==
    IF ordered_events = <<>> THEN Handled(<<>>, <<>>)
    ELSE Then(events_updates(Head(ordered_events)[2], Head(ordered_events)[1], cfg),
              ordered_updates(Tail(ordered_events), cfg))

\* The branch of a dependent tier with synchrony relations.
sync_result_updates(ordered_events, cfg) ==
    IF ordered_events.raised # "none"
    THEN Failed(ordered_events.raised, ordered_events.data, <<>>, <<>>)
    ELSE ordered_updates(ordered_events.v, cfg)

sync_rel_updates(line, cfg) == sync_result_updates(split_sync_rel(line, cfg), cfg)

\* keep_data, line = r; if keep_data: unit_turn.update(line, 'head')
unpack_header(r) == IF r[1] THEN Handled(<<<<"head", r[2]>>>>, <<>>) ELSE Handled(<<>>, <<>>)

header_updates(line, cfg) == unpack_header(process_header(line, cfg))

\* ------------------------------------------------------------ ChatSinkText

\* No sink constructed; and ChatSinkText.__init__ followed by __enter__.
SinkAbsent == [state |-> "absent", buffer |-> <<>>, file |-> NoFile, nwritten |-> 0]
SinkEntered == [state |-> "open", buffer |-> <<>>, file |-> NoFile, nwritten |-> 0]

\* ChatSinkText.write_turn
write_turn(snk, turn) ==
    [snk EXCEPT !.buffer = @ \o to_list(turn), !.nwritten = @ + 1]

\* An __exit__ that writes the buffer whether or not an exception came.
sink_exit_always_writes(snk, exc) ==
    [snk EXCEPT !.state = IF exc THEN "failed" ELSE "closed",
                !.file = FileOf(snk.buffer),
                !.buffer = <<>>]

\* ChatSinkText.__exit__: exc tells whether the body of the with statement
\* raised.
sink_exit(snk, exc) ==
    IF exc
    THEN [snk EXCEPT !.state = "failed", !.buffer = <<>>]
    ELSE [snk EXCEPT !.state = "closed", !.file = FileOf(snk.buffer), !.buffer = <<>>]

\* ------------------------------------------------- specification: files and sinks

\* process_paralinguistic not called.
StageIdle ==
    [utterance |-> <<>>, config |-> DefaultConfig, called |-> FALSE, result |-> Returned(<<>>),
     replacements |-> <<>>]

\* No other function called.
CallIdle == [fn |-> "none", args |-> <<>>, done |-> FALSE, result |-> Returned(<<>>)]

\* process_cha_file not called.
FileIdle ==
    /\ chat_config = DefaultConfig
    /\ input = <<>>
    /\ processed_lines = <<>>
    /\ status = "idle"
    /\ err = NoError
    /\ written = NoFile
    /\ appended = <<>>
    /\ flushed = <<>>
    /\ utt_calls = <<>>

TurnIdle ==
    /\ unit_turn = UnitTurnNew
    /\ log = <<>>
    /\ turn_err = "none"
    /\ nupd = 0

\* process_cha_file up to its loop: the configuration loaded, an empty list
\* of processed lines, a new turn.
InitFile ==
    /\ chat_config \in ConfigSet
    /\ input = <<>>
    /\ processed_lines = <<>>
    /\ status = "running"
    /\ err = NoError
    /\ written = NoFile
    /\ appended = <<>>
    /\ flushed = <<>>
    /\ utt_calls = <<>>
    /\ TurnIdle
    /\ sink = SinkAbsent
    /\ para = StageIdle
    /\ fn_call = CallIdle

\* with ChatSinkText(config, output_file=...) as sink: the sink entered.
InitSink ==
    /\ FileIdle
    /\ TurnIdle
    /\ sink = SinkEntered
    /\ para = StageIdle
    /\ fn_call = CallIdle

Init == InitFile \/ InitSink

IsListUpdate(u) == u[1] \in ListAttrs

\* One round of the loop of process_cha_file for the next line of the file:
\* flush tells whether the branch starts a new unit turn, h is what the
\* branch comes to.
TakeLine(line, flush, h) ==
    /\ status = "running"
    /\ Len(input) < MaxLines
    /\ processed_lines' = IF flush THEN processed_lines \o to_list(unit_turn)
                          ELSE processed_lines
    /\ flushed' = IF flush THEN Append(flushed, to_list(unit_turn)) ELSE flushed
    /\ unit_turn' = Updated(IF flush THEN UnitTurnNew ELSE unit_turn, h.updates)
    /\ appended' = appended \o SelectSeq(h.updates, IsListUpdate)
    /\ utt_calls' = h.calls
    /\ status' = IF h.raised = "none" THEN "running" ELSE "error"
    /\ err' = IF h.raised = "none" THEN err ELSE [kind |-> h.raised, data |-> h.data]
    /\ input' = Append(input, line)
    /\ log' = (IF flush THEN <<>> ELSE log) \o h.updates
    /\ nupd' = Len(log')
    /\ UNCHANGED <<chat_config, written, turn_err, sink, para, fn_call>>

\* if line.startswith('@')
HeaderLine ==
    \E line \in LineSet :
        StartsWith(line, <<"@">>) /\ TakeLine(line, FALSE, header_updates(line, chat_config))

\* elif line.startswith('*'), and '&*' not in line
UtteranceLine ==
    \E line \in LineSet :
        /\ StartsWith(line, <<"*">>) /\ ~Contains(line, <<"&", "*">>)
        /\ TakeLine(line, TRUE, utterance_updates(line, chat_config))

\* elif line.startswith('*'), and '&*' in line
InterposedLine ==
    \E line \in LineSet :
        /\ StartsWith(line, <<"*">>) /\ Contains(line, <<"&", "*">>)
        /\ TakeLine(line, TRUE, interposed_updates(line, chat_config))

\* elif line.startswith('%'), and '<' not in line
DependentTierLine ==
    \E line \in LineSet :
        /\ StartsWith(line, <<"%">>) /\ ~Contains(line, <<"<">>)
        /\ TakeLine(line, FALSE, dependent_updates(line, "env_dur", chat_config))

\* elif line.startswith('%'), and '<' in line
SyncRelLine ==
    \E line \in LineSet :
        /\ StartsWith(line, <<"%">>) /\ Contains(line, <<"<">>)
        /\ TakeLine(line, FALSE, sync_rel_updates(line, chat_config))

\* else: raise DataIntegrityError(data=line)
InvalidLine ==
    \E line \in LineSet :
        /\ ~StartsWith(line, <<"@">>) /\ ~StartsWith(line, <<"*">>) /\ ~StartsWith(line, <<"%">>)
        /\ TakeLine(line, FALSE, Failed("DataIntegrityError", line, <<>>, <<>>))

\* An end of the loop that writes the file without the flush of the last turn.
EndOfInput_NoFlush ==
    /\ status = "running"
    /\ processed_lines' = processed_lines
    /\ flushed' = flushed
    /\ written' = FileOf(processed_lines')
    /\ status' = "done"
    /\ UNCHANGED <<chat_config, input, err, appended, utt_calls, turnVars, sink, para, fn_call>>

\* The end of the loop: the last turn is flushed and the file is written.
EndOfInput ==
    /\ status = "running"
    /\ processed_lines' = processed_lines \o to_list(unit_turn)
    /\ flushed' = Append(flushed, to_list(unit_turn))
    /\ written' = FileOf(processed_lines')
    /\ status' = "done"
    /\ UNCHANGED <<chat_config, input, err, appended, utt_calls, turnVars, sink, para, fn_call>>

\* The turns the body of a with statement writes to its sink.
SinkTurns ==
    {UnitTurnNew,
     Updated(UnitTurnNew, <<<<"utt", <<"u">>>>>>),
     Updated(UnitTurnNew, <<<<"utt", <<"u">>>>, <<"head", <<"h">>>>, <<"env_dur", <<"d">>>>>>)}

\* sink.write_turn(turn)
SinkWriteTurn ==
    /\ sink.state = "open"
    /\ sink.nwritten < MaxTurns
    /\ \E turn \in SinkTurns : sink' = write_turn(sink, turn)
    /\ UNCHANGED <<fileVars, turnVars, para, fn_call>>

\* The with statement is left, by its end or by an exception of its body.
SinkExit ==
    /\ sink.state = "open"
    /\ \E exc \in BOOLEAN : sink' = sink_exit(sink, exc)
    /\ UNCHANGED <<fileVars, turnVars, para, fn_call>>

Next ==
    \/ HeaderLine
    \/ UtteranceLine
    \/ InterposedLine
    \/ DependentTierLine
    \/ SyncRelLine
    \/ InvalidLine
    \/ EndOfInput
    \/ SinkWriteTurn
    \/ SinkExit

Spec == Init /\ [][Next]_vars

\* ------------------------------------------------- claims: turns and flushes

IsUtteranceLine(line) == StartsWith(line, <<"*">>)
NumUtteranceLines(lines) == Cardinality({i \in DOMAIN lines : IsUtteranceLine(lines[i])})
Count(items, x) == Cardinality({i \in DOMAIN items : items[i] = x})
Contents(updates) == [i \in DOMAIN updates |-> updates[i][2]]
\* Two lists hold the same items, each as often in one as in the other.
SameItems(a, b) ==
    /\ Len(a) = Len(b)
    /\ \A i \in DOMAIN a : Count(a, a[i]) = Count(b, a[i])

\* C2: the turn is flushed once at each utterance line and once more at the
\* end of the input, and at no other line; the flushes make up the processed
\* lines; every item appended to a turn is in the processed lines or in the
\* open turn exactly once while the file is read, and in the written file
\* exactly once when the input has ended.
C2_FlushedAtUtteranceAndEnd ==
    /\ Len(flushed) = NumUtteranceLines(input) + (IF status = "done" THEN 1 ELSE 0)
    /\ processed_lines = Flatten(flushed)
    /\ status = "running" => SameItems(processed_lines \o to_list(unit_turn), Contents(appended))
    /\ status = "done" => written.exists /\ SameItems(written.lines, Contents(appended))

\* An utterance line directly followed by the end of the input: its text is
\* in the written file once.
C2_Witness ==
    /\ status = "done"
    /\ input = <<<<"@", "H", "\n">>, <<"*", "A", ":", "\t", "h", "i", ":", " ", "&", "-", "u", "m", " ", "x", "x", "x", " ", ".", "\n">>>>
    /\ chat_config = KeepHeaderConfig
    /\ Len(flushed) = 2
    /\ written = FileOf(<<<<"@", "H", "\n">>, <<"<", "A", ">", " ", "h", "i", " ", "<", "u", "n", "k", ">", " ", ".", "\n">>>>)

\* A header line, an utterance line, an %act line: the lines before a second
\* utterance line, and what the %act line and the utterance make of them.
HeaderUtteranceAct == <<<<"@", "H", "\n">>, <<"*", "A", ":", "\t", "h", "i", ":", " ", "&", "-", "u", "m", " ", "x", "x", "x", " ", ".", "\n">>, <<"%", "a", "c", "t", ":", "\t", "x", "\n">>>>
ActDuring == <<"<", "E", "N", "V", ">", " ", "x", " ", "<", "s", "e", "p", ">", " ", "<", "0", ">", " ", "<", "/", "E", "N", "V", ">", "\n">>
FirstUtterance == <<"<", "A", ">", " ", "h", "i", " ", "<", "u", "n", "k", ">", " ", ".", "\n">>
SecondUtteranceArrived ==
    /\ Len(input) = 4
    /\ SubSeq(input, 1, 3) = HeaderUtteranceAct
    /\ IsUtteranceLine(input[4])
    /\ status # "done"

\* C3 as stated: the turn flushed when the second utterance line arrives holds
\* the header, the during-event and the first utterance, in this order.
C3_FlushedTurnHoldsHeader ==
    (SecondUtteranceArrived /\ chat_config = KeepHeaderConfig)
        => flushed[Len(flushed)] = <<<<"@", "H", "\n">>, ActDuring, FirstUtterance>>

\* C3: the header is in the turn flushed when the first utterance line arrives
\* (an empty turn when headers are not kept); the turn flushed when the second
\* utterance line arrives holds the during-event and then the first utterance,
\* and nothing of the second utterance; the processed lines are then the
\* header, the during-event, the first utterance, in this order.
C3_HeaderFlushedBeforeFirstTurn ==
    (SecondUtteranceArrived /\ chat_config \in {DefaultConfig, KeepHeaderConfig})
        => /\ flushed = <<IF chat_config.header.keep_data THEN <<<<"@", "H", "\n">>>> ELSE <<>>,
                          <<ActDuring, FirstUtterance>>>>
           /\ processed_lines = flushed[1] \o <<ActDuring, FirstUtterance>>
           /\ unit_turn.head = <<>> /\ unit_turn.env_dur = <<>>

\* The second utterance line has arrived with headers kept, and its own text
\* is in the new turn.
C3_Witness ==
    /\ SecondUtteranceArrived
    /\ chat_config = KeepHeaderConfig
    /\ input[4] = <<"*", "A", ":", "\t", "h", "i", ":", " ", "&", "-", "u", "m", " ", "x", "x", "x", " ", ".", "\n">>
    /\ status = "running"
    /\ unit_turn.utt = <<FirstUtterance>>
    /\ Len(processed_lines) = 3

\* ------------------------------------------------- claims: vetoes, errors, stages

\* The utterance holds a postcode block that the configuration makes a veto.
HasVetoBlock(utterance, scope_cfg) ==
    \/ Contains(utterance, <<"[", "+", " ", "e", "x", "c", "]">>) /\ scope_cfg.excluded
    \/ Contains(utterance, <<"[", "+", " ", "b", "c", "h", "]">>) /\ scope_cfg.back_channel
    \/ Contains(utterance, <<"[", "+", " ", "t", "r", "n", "]">>) /\ ~scope_cfg.include_turn
    \/ Contains(utterance, <<"[", "+", " ", "z", "z", "]">>) /\ scope_cfg.postcode

\* A stage call that is the scoped-marker stage returning '' for a veto.
Vetoed(call) ==
    /\ call.stage = "process_paralinguistic"
    /\ call.raised = "none"
    /\ call.returned = <<>>
    /\ HasVetoBlock(call.given, chat_config.utterance.scoped)

\* The last line taken was given to process_utterance whole, and the
\* scoped-marker stage vetoed it.
LastLineVetoed ==
    /\ Len(utt_calls) = 1
    /\ \E k \in DOMAIN utt_calls[1].result.calls : Vetoed(utt_calls[1].result.calls[k])

\* C5: when the scoped-marker stage vetoes an utterance, it is the last stage
\* process_utterance runs for that line.
C5_VetoShortCircuits ==
    \A i \in DOMAIN utt_calls :
        \A k \in DOMAIN utt_calls[i].result.calls :
            Vetoed(utt_calls[i].result.calls[k]) => k = Len(utt_calls[i].result.calls)

\* C6: a vetoed utterance raises no exception and adds no text to the
\* utterance field of its turn.
C6_VetoedUtteranceAddsNothing ==
    LastLineVetoed => status # "error" /\ unit_turn.utt = <<>>

\* C7: with utterance.keep_data false, process_utterance returns a triple
\* and the utterance line is completed without error, with nothing added to
\* the utterance or the speaker of the turn.
C7_DroppedUtteranceCompletes ==
    (Len(utt_calls) = 1 /\ ~chat_config.utterance.keep_data
        /\ Contains(utt_calls[1].line, <<":", "\t">>))
        => /\ status # "error"
           /\ Len(utt_calls[1].result.v) = 3
           /\ unit_turn.utt = <<>> /\ unit_turn.speaker = <<>>

\* The line is an utterance or dependent-tier line without colon-tab, or its
\* first character is none of @, *, %.
FormatViolation(line) ==
    \/ (StartsWith(line, <<"*">>) \/ StartsWith(line, <<"%">>)) /\ ~Contains(line, <<":", "\t">>)
    \/ ~StartsWith(line, <<"@">>) /\ ~StartsWith(line, <<"*">>) /\ ~StartsWith(line, <<"%">>)

\* C8: a line that violates the format makes process_cha_file raise a
\* DataIntegrityError that carries the line.
C8_FormatViolationCarriesLine ==
    (input # <<>> /\ FormatViolation(input[Len(input)]))
        => /\ status = "error"
           /\ err = [kind |-> "DataIntegrityError", data |-> input[Len(input)]]

\* C9: a run of process_cha_file that raised wrote no file, a file is written
\* only by a run that returned, and a ChatSinkText left by an exception has
\* written no file and holds an empty buffer.
C9_NoPartialEmission ==
    /\ status = "error" => written = NoFile
    /\ written.exists => status = "done" /\ err = NoError
    /\ sink.state = "failed" => sink.file = NoFile /\ sink.buffer = <<>>

\* A line raised after earlier lines had given processed lines: no file.
C9_Witness ==
    /\ status = "error"
    /\ Len(input) > 1
    /\ processed_lines # <<>>
    /\ written = NoFile

\* The stages of the claim, by the names of their functions.
FixedStageOrder ==
    <<"process_basic", "process_linker", "process_incomplete", "process_paralinguistic",
      "process_special_form", "nonverbal_token", "process_local_event",
      "process_disfluencies", "process_unidentifiable">>

\* process_utterance returned (True, speaker, utterance).
Kept(result) == result.raised = "none" /\ Len(result.v) = 3 /\ result.v[1]

\* The stage calls are the nine stages in order, the first on the text after
\* the separator, each other one on what the one before it returned, the last
\* one returning the utterance.
RanInFixedOrder(line, result) ==
    /\ Len(result.calls) = Len(FixedStageOrder)
    /\ \A k \in DOMAIN result.calls : result.calls[k].stage = FixedStageOrder[k]
    /\ result.calls[1].given = Split(line, <<":", "\t">>)[2]
    /\ \A k \in 2..Len(result.calls) : result.calls[k].given = result.calls[k - 1].returned
    /\ result.v[3] = result.calls[Len(result.calls)].returned

\* C10: for every kept utterance process_utterance ran the nine stages once
\* each in the fixed order, each on the output of the stage before it.
C10_StagesInFixedOrder ==
    \A i \in DOMAIN utt_calls :
        Kept(utt_calls[i].result) => RanInFixedOrder(utt_calls[i].line, utt_calls[i].result)

\* A kept utterance whose text three of the stages changed.
C10_Witness ==
    \E i \in DOMAIN utt_calls :
        /\ Kept(utt_calls[i].result)
        /\ \A name \in {"process_basic", "process_disfluencies", "process_unidentifiable"} :
              \E k \in DOMAIN utt_calls[i].result.calls :
                  /\ utt_calls[i].result.calls[k].stage = name
                  /\ utt_calls[i].result.calls[k].given # utt_calls[i].result.calls[k].returned


\* ------------------------------------------------- claims: dependent tiers, interposed speech

\* The line the loop took last.
LastLine == input[Len(input)]
\* The loop has taken the line and gone on.
Taken(line) == input # <<>> /\ LastLine = line /\ status = "running"

\* The event a dependent tier gives for the text of an action.
EnvEvent(action) == <<"<", "E", "N", "V", ">", " ">> \o action \o <<" ", "<", "s", "e", "p", ">", " ", "<", "0", ">", " ", "<", "/", "E", "N", "V", ">", "\n">>
SyncLine == <<"%", "a", "c", "t", ":", "\t", "u", " ", "<", "b", "e", "f", ">", " ", "y", " ", "<", "b", "e", "f", ">", " ", "z", " ", "<", "a", "f", "t", ">", " ", "w", "\n">>

\* C14: every sub-event of a dependent-tier line with synchrony tags is in the
\* bucket of its tag, untagged leading content is in env_dur, and no sub-event
\* is lost when a tag comes twice.
C14_SubEventsInTheirBuckets ==
    Taken(SyncLine)
        => /\ Count(unit_turn.env_dur, EnvEvent(<<"u">>)) >= 1
           /\ Count(unit_turn.env_bef, EnvEvent(<<"y">>)) >= 1
           /\ Count(unit_turn.env_bef, EnvEvent(<<"z">>)) >= 1
           /\ Count(unit_turn.env_aft, EnvEvent(<<"w">>)) >= 1

\* The line was the first of the file: the second <bef> sub-event is all that
\* env_bef holds.
C14_Witness ==
    /\ Taken(SyncLine)
    /\ Len(input) = 1
    /\ unit_turn.env_dur = <<EnvEvent(<<"u">>)>>
    /\ unit_turn.env_bef = <<EnvEvent(<<"z">>)>>
    /\ unit_turn.env_aft = <<EnvEvent(<<"w">>)>>

\* A well-formed dependent-tier line of a tier other than act, sit and gpx.
IsOtherTier(line) ==
    /\ StartsWith(line, <<"%">>)
    /\ Contains(line, <<":", "\t">>)
    /\ \A tier \in {<<"%", "a", "c", "t", ":", "\t">>, <<"%", "s", "i", "t", ":", "\t">>, <<"%", "g", "p", "x", ":", "\t">>} : ~StartsWith(line, tier)

\* C15: a dependent-tier line of a tier other than act, sit and gpx adds
\* nothing to the turn, whatever its content.
C15_OtherTierAddsNothing ==
    [][(Len(input') = Len(input) + 1 /\ IsOtherTier(input'[Len(input')]))
          => unit_turn' = unit_turn]_vars

\* A %mor line with a synchrony tag was the first of the file, and the turn
\* holds an event for it.
C15_Witness ==
    /\ Taken(<<"%", "m", "o", "r", ":", "\t", "<", "b", "e", "f", ">", " ", "z", "\n">>)
    /\ Len(input) = 1
    /\ unit_turn.env_bef = <<EnvEvent(<<"z">>)>>

InterposedInput == <<"*", "A", ":", "\t", "a", " ", "&", "*", "B", ":", "b", " ", "c", "\n">>
SpeakerOf(utt_call) == utt_call.result.v[2]

\* C16: an utterance line of speaker A with an interposition of speaker B is
\* split into fragments of the speakers A, B, A; each is given to
\* process_utterance, and the results are appended to the turn in this order.
C16_FragmentsCarryTheirSpeakers ==
    Taken(InterposedInput)
        => /\ Len(utt_calls) = 3
           /\ SpeakerOf(utt_calls[1]) = <<"<", "A", ">">>
           /\ SpeakerOf(utt_calls[2]) = <<"<", "B", ">">>
           /\ SpeakerOf(utt_calls[3]) = <<"<", "A", ">">>
           /\ Len(unit_turn.utt) = 3
           /\ \A i \in 1..3 :
                 unit_turn.utt[i] = SpeakerOf(utt_calls[i]) \o <<" ">> \o utt_calls[i].result.v[3]

\* The first fragment was given to process_utterance as the text of the
\* template, and the turn holds it.
C16_Witness ==
    /\ Taken(InterposedInput)
    /\ utt_calls[1].line = <<"{", "s", "p", "e", "a", "k", "e", "r", "_", "i", "d", "}", ":", "\t", "{", "f", "i", "r", "s", "t", "_", "p", "a", "r", "t", ".", "s", "t", "r", "i", "p", "(", ")", "}", " ", "+", ".">>
    /\ unit_turn.utt[1] = <<"<", "s", "p", "e", "a", "k", "e", "r", "_", "i", "d", "}", ">", " ", "{", "f", "i", "r", "s", "t", "_", "p", "a", "r", "t", ".", "s", "t", "r", "i", "p", "(", ")", "}", " ", ".">>

\* The number of times the speaker of the current turn was set.
SpeakerSets == Cardinality({i \in DOMAIN log : log[i][1] = "speaker"})

\* C17: the speaker of a turn is set at most once between the creation of the
\* turn and its flush.
C17_SpeakerSetOnce == SpeakerSets <= 1

\* The interposed line has set the speaker of one turn three times.
C17_Witness ==
    /\ Taken(InterposedInput)
    /\ SpeakerSets = 3
    /\ unit_turn.speaker = <<"<", "A", ">">>


\* ------------------------------------------------- claims: unsupported options, headers

\* C19: with scoped.alternative enabled nothing fails before the first
\* utterance is processed (loading the configuration, header and dependent-tier
\* lines); every call of process_utterance on a line with a speaker separator
\* ends in the NotImplementedError of process_paralinguistic and gives no
\* text, and the run ends there with nothing stored for the line and no file
\* written.
C19_AlternativeFailsAtFirstUse ==
    chat_config.utterance.scoped.alternative
        => /\ (\A i \in DOMAIN input : ~IsUtteranceLine(input[i]))
                 => err.kind # "NotImplementedError"
           /\ \A i \in DOMAIN utt_calls :
                 Contains(utt_calls[i].line, <<":", "\t">>)
                    => /\ utt_calls[i].result.raised = "NotImplementedError"
                       /\ utt_calls[i].result.v = <<>>
                       /\ utt_calls[i].result.calls[Len(utt_calls[i].result.calls)].stage
                             = "process_paralinguistic"
           /\ (input # <<>> /\ IsUtteranceLine(LastLine) /\ Contains(LastLine, <<":", "\t">>))
                 => /\ status = "error"
                    /\ err.kind = "NotImplementedError"
                    /\ unit_turn.utt = <<>>
                    /\ written = NoFile

\* A header line and a dependent-tier line went through, and the first
\* utterance line ended the run.
C19_Witness ==
    /\ chat_config = AlternativeConfig
    /\ input = <<<<"@", "H", "\n">>, <<"%", "a", "c", "t", ":", "\t", "x", "\n">>, <<"*", "A", ":", "\t", "h", "i", ":", " ", "&", "-", "u", "m", " ", "x", "x", "x", " ", ".", "\n">>>>
    /\ processed_lines = <<EnvEvent(<<"x">>)>>
    /\ status = "error"
    /\ err.kind = "NotImplementedError"


\* The loop takes a header line in this step.
TakesHeader ==
    /\ Len(input') = Len(input) + 1
    /\ StartsWith(input'[Len(input')], <<"@">>)

\* C20: a header line never flushes or replaces the current turn: with
\* header.keep_data true the line is appended unchanged to the head list of the
\* turn and the other fields stay as they are, with header.keep_data false the
\* turn stays as it is.
C20_HeaderKeepsTurnOpen ==
    [][TakesHeader
          => /\ flushed' = flushed
             /\ processed_lines' = processed_lines
             /\ status' = "running"
             /\ unit_turn' = IF chat_config.header.keep_data
                             THEN [unit_turn EXCEPT !.head = Append(@, input'[Len(input')])]
                             ELSE unit_turn]_vars

\* A header line came after an utterance line and is in the turn of the
\* utterance.
C20_Witness ==
    /\ chat_config = KeepHeaderConfig
    /\ input = <<<<"*", "A", ":", "\t", "h", "i", ":", " ", "&", "-", "u", "m", " ", "x", "x", "x", " ", ".", "\n">>, <<"@", "H", "\n">>>>
    /\ unit_turn.utt = <<FirstUtterance>>
    /\ unit_turn.head = <<<<"@", "H", "\n">>>>
    /\ Len(flushed) = 1

\* ------------------------------------------------- specification: one UnitTurn

\* Contents and attribute names the update calls are drawn from.
TurnContents == {<<"a">>, <<"b">>}
TurnAttrNames == ListAttrs \cup StrAttrs \cup {"update", "nosuch"}

InitTurn ==
    /\ TurnIdle
    /\ FileIdle
    /\ sink = SinkAbsent
    /\ para = StageIdle
    /\ fn_call = CallIdle

\* One call unit_turn.update(content, attribute).
Update ==
    /\ nupd < MaxUpdates
    /\ \E content \in TurnContents, attribute \in TurnAttrNames :
          LET r == update(unit_turn, content, attribute) IN
          /\ unit_turn' = r.turn
          /\ turn_err' = r.raised
          /\ log' = IF r.raised = "none" THEN Append(log, <<attribute, content>>) ELSE log
          /\ fn_call' = [fn |-> "update", args |-> <<content, attribute>>, done |-> TRUE,
                         result |-> IF r.raised = "none" THEN Returned(<<>>)
                                    ELSE Raised(r.raised, attribute)]
    /\ nupd' = nupd + 1
    /\ UNCHANGED <<fileVars, sink, para>>

NextTurn == Update

SpecTurn == InitTurn /\ [][NextTurn]_vars

\* The fixed emission order of the fields.
FieldOrder == <<"head", "sit", "env_bef", "env_dur", "utt", "env_aft">>

\* What the fixed field order makes of an arrival history.
InFieldOrder(lg) == Flatten([i \in 1..Len(FieldOrder) |-> SelectAttr(lg, FieldOrder[i])])

\* C1: whatever the order in which update calls stored the items, to_list
\* returns them grouped in the order head, sit, env_bef, env_dur, utt, env_aft,
\* each group in its arrival order.
C1_EmissionOrderFixed == to_list(unit_turn) = InFieldOrder(log)

\* C1 witness: an utterance arrived before a during-event and before a header,
\* and to_list still puts header first and the during-event before the utterance.
C1_Witness ==
    /\ Len(log) >= 3
    /\ log[1][1] = "utt" /\ log[2][1] = "env_dur" /\ log[3][1] = "head"
    /\ to_list(unit_turn) = <<log[3][2], log[2][2], log[1][2]>>

\* The fields of a turn other than the named one are as they were.
OtherFieldsKept(before, after, attribute) ==
    \A f \in (DOMAIN before) \ {attribute} : after[f] = before[f]

\* What one update call must have done, from the turn before to the turn after.
UpdateEffect(before, after, raised, content, attribute) ==
    /\ attribute \in ListAttrs =>
          /\ raised = "none"
          /\ after[attribute] = Append(before[attribute], content)
          /\ OtherFieldsKept(before, after, attribute)
    /\ attribute \in StrAttrs =>
          /\ raised = "none"
          /\ after[attribute] = content
          /\ OtherFieldsKept(before, after, attribute)
    /\ attribute \notin (ListAttrs \cup StrAttrs \cup MethodAttrs) =>
          /\ raised = "DataIntegrityError"
          /\ after = before

\* C29: an update call appends the content to the named list field, or
\* overwrites the named string field, and changes no other field; for a name
\* the turn has no attribute of, it raises DataIntegrityError and the whole
\* turn is as it was before the call.
C29_UpdateTouchesOnlyNamedField ==
    [][fn_call'.fn = "update" =>
          UpdateEffect(unit_turn, unit_turn', turn_err', fn_call'.args[1], fn_call'.args[2])]_vars

\* C29 witness: a turn that already holds an utterance and a speaker was
\* updated under a name it has no attribute of; the call raised and the turn
\* still holds both.
C29_Witness ==
    /\ fn_call.fn = "update"
    /\ fn_call.args[2] = "nosuch"
    /\ turn_err = "DataIntegrityError"
    /\ fn_call.result.raised = "DataIntegrityError"
    /\ unit_turn.utt # <<>>
    /\ unit_turn.speaker # <<>>

\* ------------------------------------------------- specification: one scoped-marker call

\* The utterances process_paralinguistic is called on: up to MaxTokens tokens
\* joined by single spaces, the tokens a word and scoped-marker blocks.
ParaTokens ==
    {<<"t", "r", "e", "e">>, <<"[", "+", " ", "e", "x", "c", "]">>, <<"[", "+", " ", "b", "c", "h", "]">>, <<"[", "+", " ", "t", "r", "n", "]">>, <<"[", "+", " ", "z", "z", "]">>, <<"[", "!", " ", "x", "]">>, <<"[", "/", "]">>}
\* A second vocabulary: words, a replacement block and an error mark.
ErrorTokens ==
    {<<"g", "o", "e", "d">>, <<"[", ":", " ", "w", "e", "n", "t", "]">>, <<"[", "*", "]">>, <<"t", "h", "e", "r", "e">>}
RECURSIVE TokenSeqs(_, _)
TokenSeqs(tokens, n) ==
    IF n = 0 THEN {<<>>}
    ELSE {<<>>} \cup {<<t>> \o s : t \in tokens, s \in TokenSeqs(tokens, n - 1)}
ParaUtterances ==
    {Join(<<" ">>, s) : s \in (TokenSeqs(ParaTokens, MaxTokens)
                                \cup TokenSeqs(ErrorTokens, MaxTokens)) \ {<<>>}}

\* The configurations of the calls: the defaults, where every postcode but
\* [+ trn] vetoes, the opposite choice for each postcode option, and the
\* defaults with alternative transcriptions asked for.
PostcodesKeptConfig ==
    [DefaultConfig EXCEPT !.utterance.scoped.excluded = FALSE,
                          !.utterance.scoped.back_channel = FALSE,
                          !.utterance.scoped.include_turn = FALSE,
                          !.utterance.scoped.postcode = FALSE]
ParaConfigs == {DefaultConfig, PostcodesKeptConfig, AlternativeConfig}

\* A third vocabulary: a word and blocks of the tag-wrapping identifiers; and
\* utterances of four tokens where text follows two chained blocks.
TagTokens == {<<"t", "r", "e", "e">>, <<"[", "=", "!", " ", "x", "]">>, <<"[", "^", " ", "x", "]">>, <<"[", "=", " ", "x", "]">>, <<"[", "%", " ", "x", "]">>}
ChainUtterances ==
    {<<"g", "o", "e", "d", " ", "[", ":", " ", "w", "e", "n", "t", "]", " ", "[", "*", "]", " ", "t", "h", "e", "r", "e">>, <<"t", "r", "e", "e", " ", "[", "=", "!", " ", "x", "]", " ", "[", "=", " ", "x", "]", " ", "t", "h", "e", "r", "e">>, <<"t", "r", "e", "e", " ", "[", "=", "!", " ", "x", "]", " ", "[", "=", "!", " ", "x", "]", " ", "t", "h", "e", "r", "e">>}
TagUtterances ==
    {Join(<<" ">>, s) : s \in TokenSeqs(TagTokens, MaxTokens) \ {<<>>}} \cup ChainUtterances

\* The configurations of these calls: the defaults (paralinguistic tag ENV, no
\* explanation tag), tags of their own for both, and no paralinguistic tag.
TagsConfig ==
    [DefaultConfig EXCEPT !.utterance.scoped.paralinguistic = <<"e", "v", "t">>,
                          !.utterance.scoped.explanation = <<"e", "x", "p">>]
NullTagConfig == [DefaultConfig EXCEPT !.utterance.scoped.paralinguistic = T_null]
TagConfigs == {DefaultConfig, TagsConfig, NullTagConfig}

ParaCall(u, c) ==
    [utterance |-> u, config |-> c, called |-> FALSE, result |-> Returned(<<>>),
     replacements |-> <<>>]

InitPara ==
    /\ TurnIdle
    /\ FileIdle
    /\ sink = SinkAbsent
    /\ fn_call = CallIdle
    /\ para \in {ParaCall(u, c) : u \in ParaUtterances, c \in ParaConfigs}
                \cup {ParaCall(u, c) : u \in TagUtterances, c \in TagConfigs}

\* process_paralinguistic(utterance, config)
Paralinguistic ==
    /\ ~para.called
    /\ para' = [para EXCEPT !.called = TRUE,
                            !.result = process_paralinguistic(para.utterance, para.config),
                            !.replacements = para_replacements(para.utterance, para.config)]
    /\ UNCHANGED <<fileVars, turnVars, sink, fn_call>>

NextPara == Paralinguistic

SpecPara == InitPara /\ [][NextPara]_vars

\* C4: process_paralinguistic returns the empty string for every utterance
\* that holds a vetoing postcode block, whatever else the utterance holds.
C4_VetoReturnsEmpty ==
    (para.called /\ HasVetoBlock(para.utterance, para.config.utterance.scoped))
        => para.result = Returned(<<>>)


\* ------------------------------------------------- claims: replacement spans

\* Two spans (start, end, replacement) share a character of the utterance.
Overlap(a, b) == a[1] < b[2] /\ b[1] < a[2]

PairwiseDisjoint(spans) ==
    \A i, j \in DOMAIN spans : i < j => ~Overlap(spans[i], spans[j])

\* C11: the replacement spans process_paralinguistic collects for one
\* utterance are pairwise non-overlapping, also when one base phrase carries
\* several chained identifier blocks.
C11_SpansNeverOverlap ==
    para.called => PairwiseDisjoint(para.replacements)

\* The call on 'goed [: went] [*]' has collected the span of the replacement
\* block and the span of the error mark over the same base word.
C11_Witness ==
    /\ para.called
    /\ para.utterance = <<"g", "o", "e", "d", " ", "[", ":", " ", "w", "e", "n", "t", "]", " ", "[", "*", "]">>
    /\ para.config = DefaultConfig
    /\ para.replacements = << <<0, 17, <<"w", "e", "n", "t">>>>, <<0, 18, <<>> >> >>



\* ------------------------------------------------- claims: error marks

\* The utterance of the call is the given tokens joined by single spaces, and
\* the call is made with scoped.error false and no alternative transcription.
ErrorMarkCall(tokens) ==
    /\ para.called
    /\ ~para.config.utterance.scoped.error
    /\ ~para.config.utterance.scoped.alternative
    /\ para.utterance = Join(<<" ">>, tokens)

\* C13: with scoped.error false an error mark [*] deletes only its own
\* bracket: the base word, or the replacement a chained [: ...] block supplies,
\* stays in the output, and so does the text after the mark.
C13_ErrorMarkDeletesOnlyItself ==
    \A tail \in {<<>>, <<<<"t", "h", "e", "r", "e">>>>} :
        /\ ErrorMarkCall(<<<<"g", "o", "e", "d">>, <<"[", "*", "]">>>> \o tail)
              => para.result = Returned(Join(<<" ">>, <<<<"g", "o", "e", "d">>>> \o tail))
        /\ ErrorMarkCall(<<<<"g", "o", "e", "d">>, <<"[", ":", " ", "w", "e", "n", "t", "]">>, <<"[", "*", "]">>>> \o tail)
              => para.result = Returned(Join(<<" ">>, <<<<"w", "e", "n", "t">>>> \o tail))

\* The call on 'goed [*] there' has returned 'there': the base word is gone
\* with the mark.
C13_Witness ==
    /\ ErrorMarkCall(<<<<"g", "o", "e", "d">>, <<"[", "*", "]">>, <<"t", "h", "e", "r", "e">>>>)
    /\ para.result = Returned(<<"t", "h", "e", "r", "e">>)


\* ------------------------------------------------- claims: tags, text after a region

\* The tag of a tag-wrapping block: the paralinguistic tag for =! and ^, the
\* explanation tag for = and %.
TagOf(block, scope_cfg) ==
    IF block \in {<<"[", "=", "!", " ", "x", "]">>, <<"[", "^", " ", "x", "]">>} THEN Get(scope_cfg.paralinguistic, <<"E", "N", "V">>)
    ELSE Get(scope_cfg.explanation, <<"n", "u", "l", "l">>)

\* <tag>event<sep>text</tag>, or the bare text for the tag 'null'.
Wrapped(tag, event, text) ==
    IF tag = <<"n", "u", "l", "l">> THEN text
    ELSE <<"<">> \o tag \o <<">">> \o event \o <<"<", "s", "e", "p", ">">> \o text \o <<"<", "/">> \o tag \o <<">">>

\* C25: a tag-wrapping identifier (=!, ^, =, %) replaces the base phrase and
\* its bracket by exactly <tag>event<sep>text</tag>, the event before the base
\* text, or by the bare base text when the tag is configured 'null'.
C25_TagWrapsEventAndText ==
    \A block \in TagTokens \ {<<"t", "r", "e", "e">>}, tail \in {<<>>, <<<<"t", "r", "e", "e">>>>} :
        (para.called /\ para.utterance = Join(<<" ">>, <<<<"t", "r", "e", "e">>, block>> \o tail))
           => para.result =
                Returned(Join(<<" ">>,
                     <<Wrapped(TagOf(block, para.config.utterance.scoped), <<"x">>, <<"t", "r", "e", "e">>)>>
                     \o tail))

\* The call on 'tree [=! x]' with the paralinguistic tag evt has returned the
\* event and the text with spaces around them.
C25_Witness ==
    /\ para.called
    /\ para.utterance = <<"t", "r", "e", "e", " ", "[", "=", "!", " ", "x", "]">>
    /\ para.config = TagsConfig
    /\ para.result = Returned(<<"<", "e", "v", "t", ">", " ", "x", " ", "<", "s", "e", "p", ">", " ", "t", "r", "e", "e", " ", "<", "/", "e", "v", "t", ">">>)

EndsWith(s, suffix) ==
    Len(s) >= Len(suffix) /\ SubSeq(s, Len(s) - Len(suffix) + 1, Len(s)) = suffix

\* C27: for an utterance that is not vetoed the text to the right of a matched
\* marker region is in the result as it was, not cut and not repeated, also
\* after two or more chained identifier blocks.
C27_TextAfterRegionIntact ==
    (/\ para.called
     /\ EndsWith(para.utterance, <<"]", " ", "t", "h", "e", "r", "e">>)
     /\ ~HasVetoBlock(para.utterance, para.config.utterance.scoped))
        => /\ para.result.raised = "none"
           /\ EndsWith(para.result.v, <<" ", "t", "h", "e", "r", "e">>)
           /\ Len(Split(para.result.v, <<"t", "h", "e", "r", "e">>)) = 2

\* The call on 'tree [=! x] [= x] there' has returned the event without the
\* word that followed the blocks.
C27_Witness ==
    /\ para.called
    /\ para.utterance = <<"t", "r", "e", "e", " ", "[", "=", "!", " ", "x", "]", " ", "[", "=", " ", "x", "]", " ", "t", "h", "e", "r", "e">>
    /\ para.config = DefaultConfig
    /\ para.result = Returned(<<"<", "E", "N", "V", ">", " ", "x", " ", "<", "s", "e", "p", ">", " ", "t", "r", "e", "e", " ", "<", "/", "E", "N", "V", ">">>)

\* ------------------------------------------------- specification: one application of spans

\* The texts the spans are applied to: distinct characters, so that a character
\* lost, moved or repeated shows.
SpanTexts == {SubSeq(<<"a", "b", "c", "d", "e">>, 1, n) : n \in 0..MaxText}
\* Replacements shorter than, as long as and longer than a one-character span.
SpanReplacements == {<<>>, <<"x">>, <<"y", "z">>}
\* The spans on a text: 0 <= start <= end, the end at most one past the text
\* (the error-mark branch appends end + 1).
SpansOn(text) ==
    {sp \in (0..Len(text)) \X (0..(Len(text) + 1)) \X SpanReplacements : sp[1] <= sp[2]}
RECURSIVE SpanLists(_, _)
SpanLists(text, n) ==
    IF n = 0 THEN {<<>>}
    ELSE {<<>>} \cup {<<sp>> \o l : sp \in SpansOn(text), l \in SpanLists(text, n - 1)}

InitSpans ==
    /\ TurnIdle
    /\ FileIdle
    /\ sink = SinkAbsent
    /\ para = StageIdle
    /\ \E text \in SpanTexts :
          \E replacements \in SpanLists(text, MaxSpans) :
             fn_call = [fn |-> "apply_replacements", args |-> <<text, replacements>>,
                        done |-> FALSE, result |-> Returned(<<>>)]

\* for start, end, replacement in sorted(replacements, reverse=True):
\*     utterance = utterance[:start] + replacement + utterance[end:]
ApplyReplacements ==
    /\ fn_call.fn = "apply_replacements"
    /\ ~fn_call.done
    /\ fn_call' = [fn_call EXCEPT
                     !.done = TRUE,
                     !.result = Returned(ApplySpans(fn_call.args[1],
                                                    SortedReverse(fn_call.args[2])))]
    /\ UNCHANGED <<fileVars, turnVars, sink, para>>

NextSpans == ApplyReplacements

SpecSpans == InitSpans /\ [][NextSpans]_vars

RECURSIVE InsertAsc(_, _)
InsertAsc(x, sorted) ==
    IF sorted = <<>> THEN <<x>>
    ELSE IF SpanLess(x, Head(sorted)) THEN <<x>> \o sorted
    ELSE <<Head(sorted)>> \o InsertAsc(x, Tail(sorted))

RECURSIVE LeftToRight(_)
\* The spans from the left of the text to its right.
LeftToRight(spans) ==
    IF spans = <<>> THEN <<>> ELSE InsertAsc(Head(spans), LeftToRight(Tail(spans)))

RECURSIVE Reconstructed(_, _, _)
\* One pass over the text from offset pos: the text up to the next span, the
\* replacement of the span, and on from the end of the span.
Reconstructed(text, spans, pos) ==
    IF spans = <<>> THEN SubSeq(text, pos + 1, Len(text))
    ELSE SubSeq(text, pos + 1, Head(spans)[1]) \o Head(spans)[3]
         \o Reconstructed(text, Tail(spans), Head(spans)[2])

\* C12: for non-overlapping spans, applying the replacements in descending
\* start-offset order gives the text of a single left-to-right
\* reconstruction: text outside the spans unchanged, each span replaced by
\* its replacement.
C12_DescendingEqualsLeftToRight ==
    (fn_call.fn = "apply_replacements" /\ fn_call.done /\ PairwiseDisjoint(fn_call.args[2]))
        => fn_call.result =
             Returned(Reconstructed(fn_call.args[1], LeftToRight(fn_call.args[2]), 0))

\* Two spans given from left to right, the first one growing the text and the
\* second one shrinking it, have been applied.
C12_Witness ==
    /\ fn_call.done
    /\ fn_call.args = <<<<"a", "b", "c">>, << <<0, 1, <<"y", "z">>>>, <<2, 3, <<>> >> >> >>
    /\ fn_call.result = Returned(<<"y", "z", "b">>)


\* ------------------------------------------------- specification: one disfluency call

\* The utterances process_disfluencies is called on: up to MaxTokens tokens
\* joined by single spaces, the tokens a word, a fragment and a filler; the
\* empty utterance is one of them.
DisfluencyTokens == {<<"h", "i">>, <<"&", "+", "f", "r">>, <<"&", "-", "u", "m">>}
DisfluencyUtterances == {Join(<<" ">>, s) : s \in TokenSeqs(DisfluencyTokens, MaxTokens)}

\* The values of an option: left out, the three of the enumeration, and two
\* outside it.
DisfluencyOptions == {Absent, T_null, T_keep, T_unk, <<"b", "a", "d">>, <<>>}
DisfluencyConfigs ==
    {[DefaultConfig EXCEPT !.utterance.disfluency =
                              [fragment |-> a, filler |-> b, nonwords |-> c]] :
        a \in DisfluencyOptions, b \in DisfluencyOptions, c \in DisfluencyOptions}

InitDisfluencies ==
    /\ TurnIdle
    /\ FileIdle
    /\ sink = SinkAbsent
    /\ para = StageIdle
    /\ fn_call \in {[fn |-> "process_disfluencies", args |-> <<utterance, config>>,
                     done |-> FALSE, result |-> Returned(<<>>)] :
                       utterance \in DisfluencyUtterances, config \in DisfluencyConfigs}

\* process_disfluencies(utterance, config)
Disfluencies ==
    /\ fn_call.fn = "process_disfluencies"
    /\ ~fn_call.done
    /\ fn_call' = [fn_call EXCEPT
                     !.done = TRUE,
                     !.result = process_disfluencies(fn_call.args[1], fn_call.args[2])]
    /\ UNCHANGED <<fileVars, turnVars, sink, para>>

NextDisfluencies == Disfluencies

SpecDisfluencies == InitDisfluencies /\ [][NextDisfluencies]_vars

\* The option is in the configuration with a value other than 'null', 'keep', 'unk'.
OutsideEnumeration(option) ==
    option # Absent /\ option \notin {<<"n", "u", "l", "l">>, <<"k", "e", "e", "p">>, <<"u", "n", "k">>}

InvalidDisfluencyConfig(disfluencies_cfg) ==
    \/ OutsideEnumeration(disfluencies_cfg.fragment)
    \/ OutsideEnumeration(disfluencies_cfg.filler)
    \/ OutsideEnumeration(disfluencies_cfg.nonwords)

\* C18: with a disfluency option outside 'null', 'keep', 'unk',
\* process_disfluencies raises DataIntegrityError carrying the disfluency
\* configuration, whatever the utterance, and returns no text.
C18_InvalidOptionRaises ==
    (/\ fn_call.fn = "process_disfluencies"
     /\ fn_call.done
     /\ InvalidDisfluencyConfig(fn_call.args[2].utterance.disfluency))
        => fn_call.result = [raised |-> "DataIntegrityError", v |-> <<>>,
                             data |-> fn_call.args[2].utterance.disfluency]

\* The call on a text with no disfluency marker, where only the option looked
\* at last is outside the enumeration, has raised.
C18_Witness ==
    /\ fn_call.fn = "process_disfluencies"
    /\ fn_call.done
    /\ fn_call.args[1] = <<"h", "i">>
    /\ fn_call.args[2].utterance.disfluency =
          [fragment |-> Absent, filler |-> <<"u", "n", "k">>, nonwords |-> <<"b", "a", "d">>]
    /\ fn_call.result.raised = "DataIntegrityError"



\* What a token of the utterance becomes under the options: a marker of a
\* family is dropped ('null'), gives its bare fragment ('keep') or '<unk>'; any
\* other token stays. A dropped token is the empty list of tokens.
HandledMarker(token, handle) ==
    IF handle = T_null THEN <<>>
    ELSE IF handle = T_keep THEN <<SubSeq(token, 3, Len(token))>>
    ELSE <<<<"<", "u", "n", "k", ">">>>>

HandledToken(token, disfluencies_cfg) ==
    IF StartsWith(token, <<"&", "+">>) THEN HandledMarker(token, Get(disfluencies_cfg.fragment, T_null))
    ELSE IF StartsWith(token, <<"&", "-">>) THEN HandledMarker(token, Get(disfluencies_cfg.filler, T_null))
    ELSE IF StartsWith(token, <<"&", "~">>) THEN HandledMarker(token, Get(disfluencies_cfg.nonwords, T_null))
    ELSE <<token>>

\* C24: for each disfluency family and every utterance, the markers of the
\* family are removed ('null'), replaced by their bare fragment ('keep') or by
\* '<unk>' ('unk'), wherever they stand in the utterance, the last token
\* included.
C24_EveryMarkerHandled ==
    \A tokens \in TokenSeqs(DisfluencyTokens, MaxTokens) :
        (/\ fn_call.fn = "process_disfluencies" /\ fn_call.done
         /\ fn_call.args[1] = Join(<<" ">>, tokens)
         /\ ~InvalidDisfluencyConfig(fn_call.args[2].utterance.disfluency))
           => fn_call.result =
                Returned(Join(<<" ">>, Flatten([i \in DOMAIN tokens |->
                            HandledToken(tokens[i], fn_call.args[2].utterance.disfluency)])))

\* The call on 'hi &+fr' with the default options (markers dropped) has
\* returned the utterance with its marker.
C24_Witness ==
    /\ fn_call.fn = "process_disfluencies" /\ fn_call.done
    /\ fn_call.args = <<<<"h", "i", " ", "&", "+", "f", "r">>, DefaultConfig>>
    /\ fn_call.result = Returned(<<"h", "i", " ", "&", "+", "f", "r">>)

\* ------------------------------------------------- specification: one utterance line

\* The utterance lines process_utterance is called on: speaker A, up to MaxWords
\* tokens joined by single spaces, and a terminator. The tokens: the nonverbal
\* digit, a number, a word, a replacement block and a text with a colon-tab.
WordTokens == {<<"0">>, <<"1", "0">>, <<"g", "o", "e", "d">>, <<"[", ":", " ", "w", "e", "n", "t", "]">>, <<"a", ":", "\t", "b">>}
UtteranceLines ==
    {<<"*", "A", ":", "\t">> \o Join(<<" ">>, s) \o <<" ", ".", "\n">> : s \in TokenSeqs(WordTokens, MaxWords) \ {<<>>}}

\* lengthening: true
LengtheningConfig == [DefaultConfig EXCEPT !.utterance.basic.lengthening = TRUE]
UtteranceConfigs == {DefaultConfig, LengtheningConfig}

InitUtterance ==
    /\ TurnIdle
    /\ FileIdle
    /\ sink = SinkAbsent
    /\ para = StageIdle
    /\ fn_call \in {[fn |-> "process_utterance", args |-> <<input_line, config>>,
                     done |-> FALSE, result |-> Returned(<<>>),
                     again |-> FALSE, second |-> Returned(<<>>)] :
                       input_line \in UtteranceLines, config \in UtteranceConfigs}

\* process_utterance(input_line, config)
Utterance ==
    /\ fn_call.fn = "process_utterance"
    /\ ~fn_call.done
    /\ fn_call' = [fn_call EXCEPT
                     !.done = TRUE,
                     !.result = process_utterance(fn_call.args[1], fn_call.args[2])]
    /\ UNCHANGED <<fileVars, turnVars, sink, para>>

\* process_utterance on a line of the same speaker with the text the first
\* call returned.
UtteranceAgain ==
    /\ fn_call.fn = "process_utterance"
    /\ fn_call.done
    /\ ~fn_call.again
    /\ fn_call.result.raised = "none"
    /\ fn_call' = [fn_call EXCEPT
                     !.again = TRUE,
                     !.second = process_utterance(<<"*", "A", ":", "\t">> \o fn_call.result.v[3],
                                                  fn_call.args[2])]
    /\ UNCHANGED <<fileVars, turnVars, sink, para>>

NextUtterance == Utterance \/ UtteranceAgain

SpecUtterance == InitUtterance /\ [][NextUtterance]_vars

\* The text of the line after its first colon-tab.
TextOf(input_line) == SplitMax(input_line, <<":", "\t">>, 1)[2]

\* C21: process_utterance splits the line at the first colon-tab only: when the
\* text of the utterance holds a further colon-tab no error is raised, the
\* speaker is the part before the first separator and the text after it is
\* the utterance.
C21_SplitAtFirstSeparator ==
    (fn_call.fn = "process_utterance" /\ fn_call.done
       /\ Contains(TextOf(fn_call.args[1]), <<":", "\t">>))
        => /\ fn_call.result.raised = "none"
           /\ fn_call.result.v[1] = TRUE
           /\ fn_call.result.v[2] = <<"<", "A", ">">>
           /\ fn_call.result.calls[1].given = TextOf(fn_call.args[1])

\* The call on a line with a colon-tab in its text has raised with the line.
C21_Witness ==
    /\ fn_call.fn = "process_utterance" /\ fn_call.done
    /\ fn_call.args[1] = <<"*", "A", ":", "\t", "a", ":", "\t", "b", " ", ".", "\n">>
    /\ fn_call.result.raised = "DataIntegrityError"
    /\ fn_call.result.data = fn_call.args[1]


\* The line of speaker A with the given tokens as its text.
LineOf(tokens) == <<"*", "A", ":", "\t">> \o Join(<<" ">>, tokens) \o <<" ", ".", "\n">>
\* The call of process_utterance on the line has been made.
UtteranceCalled(input_line) ==
    fn_call.fn = "process_utterance" /\ fn_call.done /\ fn_call.args[1] = input_line

\* The tokens with each 0 that stands alone replaced by the nonverbal token.
NonverbalReplaced(tokens) ==
    [i \in DOMAIN tokens |-> IF tokens[i] = <<"0">> THEN <<"<", "0", ">">> ELSE tokens[i]]

\* C23: only a digit 0 that is a token of its own is replaced by the nonverbal
\* token; a 0 inside a longer token (the number 10) stays as it is.
C23_OnlyStandaloneZeroReplaced ==
    \A tokens \in TokenSeqs({<<"0">>, <<"1", "0">>, <<"g", "o", "e", "d">>}, MaxWords) \ {<<>>} :
        UtteranceCalled(LineOf(tokens))
           => /\ fn_call.result.raised = "none"
              /\ fn_call.result.v[3] = Join(<<" ">>, NonverbalReplaced(tokens)) \o <<" ", ".", "\n">>

\* The call on a line with the number 10 has put the nonverbal token in the
\* place of its digit 0.
C23_Witness ==
    /\ UtteranceCalled(<<"*", "A", ":", "\t", "0", " ", "1", "0", " ", ".", "\n">>)
    /\ fn_call.result.v[3] = <<"<", "0", ">", " ", "1", "<", "0", ">", " ", ".", "\n">>

\* C26: the stages of process_utterance run a second time, on the text they
\* have cleaned, return that text unchanged.
C26_PipelineIdempotent ==
    (fn_call.fn = "process_utterance" /\ fn_call.again)
        => /\ fn_call.second.raised = "none"
           /\ fn_call.second.v[3] = fn_call.result.v[3]

\* The second run on the cleaned text '<0> .' has wrapped the nonverbal token
\* once more.
C26_Witness ==
    /\ fn_call.fn = "process_utterance" /\ fn_call.again
    /\ fn_call.args[1] = <<"*", "A", ":", "\t", "0", " ", ".", "\n">>
    /\ fn_call.result.v[3] = <<"<", "0", ">", " ", ".", "\n">>
    /\ fn_call.second.v[3] = <<"<", "<", "0", ">", ">", " ", ".", "\n">>

\* C28: with the default options (lengthening marks removed, replacements
\* applied) an utterance line with a replacement block 'word [: repl]' is
\* cleaned to 'repl'.
C28_ReplacementSurvivesBasicCleanup ==
    (UtteranceCalled(<<"*", "A", ":", "\t", "g", "o", "e", "d", " ", "[", ":", " ", "w", "e", "n", "t", "]", " ", ".", "\n">>) /\ fn_call.args[2] = DefaultConfig)
        => fn_call.result.v[3] = <<"w", "e", "n", "t", " ", ".", "\n">>

\* The call has returned the block without its colon, the word not replaced.
C28_Witness ==
    /\ UtteranceCalled(<<"*", "A", ":", "\t", "g", "o", "e", "d", " ", "[", ":", " ", "w", "e", "n", "t", "]", " ", ".", "\n">>)
    /\ fn_call.args[2] = DefaultConfig
    /\ fn_call.result.v[3] = <<"g", "o", "e", "d", " ", "[", " ", "w", "e", "n", "t", "]", " ", ".", "\n">>


\* ------------------------------------------------- specification: one unidentifiable call

\* The utterances process_unidentifiable is called on: up to MaxTokens tokens
\* joined by single spaces, the tokens the three markers, a shorter token and a
\* longer one.
UnidentifiableTokens == {<<"x", "x", "x">>, <<"y", "y", "y">>, <<"w", "w", "w">>, <<"w", "w">>, <<"x", "x", "x", "x">>}
UnidentifiableUtterances ==
    {Join(<<" ">>, s) : s \in TokenSeqs(UnidentifiableTokens, MaxTokens)}

\* The configurations: the defaults ('<unk>' for each marker) and a token of
\* its own for two of the markers.
MarkersConfig ==
    [DefaultConfig EXCEPT !.utterance.unidentifiable.unintelligible = <<"<", "X", ">">>,
                          !.utterance.unidentifiable.phonological = <<"<", "Y", ">">>]
UnidentifiableConfigs == {DefaultConfig, MarkersConfig}

InitUnidentifiable ==
    /\ TurnIdle
    /\ FileIdle
    /\ sink = SinkAbsent
    /\ para = StageIdle
    /\ fn_call \in {[fn |-> "process_unidentifiable", args |-> <<utterance, config>>,
                     done |-> FALSE, result |-> Returned(<<>>)] :
                       utterance \in UnidentifiableUtterances, config \in UnidentifiableConfigs}

\* process_unidentifiable(utterance, config)
Unidentifiable ==
    /\ fn_call.fn = "process_unidentifiable"
    /\ ~fn_call.done
    /\ fn_call' = [fn_call EXCEPT
                     !.done = TRUE,
                     !.result = Returned(process_unidentifiable(fn_call.args[1], fn_call.args[2]))]
    /\ UNCHANGED <<fileVars, turnVars, sink, para>>

NextUnidentifiable == Unidentifiable

SpecUnidentifiable == InitUnidentifiable /\ [][NextUnidentifiable]_vars

\* The token the configuration gives for a token of the utterance: the
\* configured one for exactly xxx, yyy, www, and the token itself otherwise.
ConfiguredToken(token, unid_cfg) ==
    IF token = <<"x", "x", "x">> THEN Get(unid_cfg.unintelligible, <<"<", "u", "n", "k", ">">>)
    ELSE IF token = <<"y", "y", "y">> THEN Get(unid_cfg.phonological, <<"<", "u", "n", "k", ">">>)
    ELSE IF token = <<"w", "w", "w">> THEN Get(unid_cfg.untranscribed, <<"<", "u", "n", "k", ">">>)
    ELSE token

\* C22: process_unidentifiable replaces the tokens that are exactly xxx, yyy
\* or www by the configured tokens and leaves every other token, also one
\* that holds such a triple, as it is.
C22_OnlyWholeTokensReplaced ==
    \A tokens \in TokenSeqs(UnidentifiableTokens, MaxTokens) :
        (fn_call.fn = "process_unidentifiable" /\ fn_call.done
           /\ fn_call.args[1] = Join(<<" ">>, tokens))
           => fn_call.result =
                Returned(Join(<<" ">>, [i \in DOMAIN tokens |->
                            ConfiguredToken(tokens[i], fn_call.args[2].utterance.unidentifiable)]))

\* The call on 'xxx xxxx ww' has replaced the triple inside the longer token.
C22_Witness ==
    /\ fn_call.fn = "process_unidentifiable" /\ fn_call.done
    /\ fn_call.args = <<<<"x", "x", "x", " ", "x", "x", "x", "x", " ", "w", "w">>, DefaultConfig>>
    /\ fn_call.result = Returned(<<"<", "u", "n", "k", ">", " ", "<", "u", "n", "k", ">", "x", " ", "w", "w">>)

\* ------------------------------------------------- specification: one JSON sink

\* ChatSinkJSON.__init__ followed by __enter__: an empty buffer of records.
JSONSinkEntered ==
    [state |-> "open", buffer |-> <<>>, file |-> NoFile, nwritten |-> 0, is_multiline |-> TRUE]

\* list(map(str.strip, lines))
StripAll(lines) == [i \in DOMAIN lines |-> Strip(lines[i])]

\* ChatSinkJSON.write_turn: a header record when the turn has header lines,
\* else an utterance record when it has utterance lines, else nothing.
json_write_turn(snk, turn) ==
    IF turn.head # <<>>
    THEN [snk EXCEPT !.buffer = Append(@, [kind |-> "header", content |-> StripAll(turn.head)]),
                     !.nwritten = @ + 1]
    ELSE IF turn.utt # <<>>
    THEN [snk EXCEPT !.buffer = Append(@, [kind |-> "utterance", content |-> StripAll(to_list(turn))]),
                     !.nwritten = @ + 1]
    ELSE snk

\* The lines and the attributes of the update calls that build the turn.
JSONContents == {<<"u", "\n">>, <<" ", "d", "\n">>}
JSONAttrNames == {"head", "utt", "env_dur"}

InitJSON ==
    /\ TurnIdle
    /\ FileIdle
    /\ sink = JSONSinkEntered
    /\ para = StageIdle
    /\ fn_call = CallIdle

\* One call unit_turn.update(content, attribute) on the turn being built.
JSONUpdate ==
    /\ nupd < MaxUpdates
    /\ \E content \in JSONContents, attribute \in JSONAttrNames :
          LET r == update(unit_turn, content, attribute) IN
          /\ unit_turn' = r.turn
          /\ turn_err' = r.raised
          /\ log' = IF r.raised = "none" THEN Append(log, <<attribute, content>>) ELSE log
          /\ fn_call' = [fn |-> "update", args |-> <<content, attribute>>, done |-> TRUE,
                         result |-> Returned(<<>>)]
    /\ nupd' = nupd + 1
    /\ UNCHANGED <<fileVars, sink, para>>

\* sink.write_turn(unit_turn): the call keeps the turn it was given and the
\* records it added to the buffer.
JSONWriteTurn ==
    /\ sink.state = "open"
    /\ sink.nwritten < MaxTurns
    /\ sink' = json_write_turn(sink, unit_turn)
    /\ fn_call' = [fn |-> "write_turn", args |-> <<unit_turn>>, done |-> TRUE,
                   result |-> Returned(SubSeq(sink'.buffer, Len(sink.buffer) + 1, Len(sink'.buffer)))]
    /\ UNCHANGED <<fileVars, turnVars, para>>

NextJSON ==
    \/ JSONUpdate
    \/ JSONWriteTurn

SpecJSON == InitJSON /\ [][NextJSON]_vars

\* The record holds the line, stripped as every line of a record is.
HoldsLine(record, line) == \E j \in DOMAIN record.content : record.content[j] = Strip(line)

\* C30: a write_turn call with a turn whose utt list is not empty adds a record
\* to the buffer that holds every utterance line of the turn, whether or not
\* the turn has header lines.
C30_UtteranceNeverDropped ==
    (fn_call.fn = "write_turn" /\ fn_call.args[1].utt # <<>>) =>
        /\ Len(fn_call.result.v) = 1
        /\ \A i \in DOMAIN fn_call.args[1].utt :
              HoldsLine(fn_call.result.v[1], fn_call.args[1].utt[i])

\* C30 case: a turn with a header line and an utterance line was written, and
\* the record added is a header record with the header line alone.
C30_Witness ==
    /\ fn_call.fn = "write_turn"
    /\ fn_call.args[1].head = <<<<" ", "d", "\n">>>>
    /\ fn_call.args[1].utt = <<<<"u", "\n">>>>
    /\ fn_call.result.v = <<[kind |-> "header", content |-> <<<<"d">>>>]>>
    /\ sink.buffer[Len(sink.buffer)] = fn_call.result.v[1]

====
